---------------------------- MODULE Spec2Model ----------------------------
(***************************************************************************)
(* A model of openwebui-token-tracking: the credit ledger (TokenTracker,   *)
(* tracking.py), the request gate and the tracked pipe                     *)
(* (BaseTrackedPipe, pipes/base_tracked_pipe.py) and the sponsored         *)
(* allowance store (sponsored.py, db/sponsored.py).                        *)
(*                                                                         *)
(* Encoding of Python values.                                              *)
(*   None where a string or UUID is expected is the string "None".         *)
(*   An Optional[int] is a sequence of length <= 1: << >> is None and      *)
(*   <<v>> is the integer v.                                               *)
(*   A float is an IEEE-754 double, a record of sign, exponent and         *)
(*   53-bit significand; its sums, products and quotients are rounded to   *)
(*   nearest, ties to even, as the code's are, and int() truncates toward  *)
(*   zero.  The exact rationals <<numerator, denominator>> are what the    *)
(*   statements about credits compare the code's figures with.             *)
(*   A call's outcome is a record: Ok(v) for a returned value, Raise(e)    *)
(*   for a raised exception of class e.                                    *)
(*   A date is a day number; a calendar month is DaysPerMonth consecutive  *)
(*   days.  Timestamps are compared at day granularity, which is what      *)
(*   func.date(...) does with log_date.                                    *)
(*                                                                         *)
(* The read operations take the database and clock they read as their      *)
(* first parameter db (the tracker's self.db_engine and the server's       *)
(* date): DB is the one of the current state.                              *)
(***************************************************************************)
EXTENDS Integers, Sequences, FiniteSets, TLC

VARIABLES
    model_pricing,          \* table token_tracking_model_pricing (a sequence of rows)
    base_setting,           \* table BaseSetting: setting_key -> setting_value
    credit_group,           \* table CreditGroup: sequence of rows [id, max_credit]
    credit_group_user,      \* table CreditGroupUser: set of rows [credit_group_id, user_id]
    sponsored_allowance,    \* table SponsoredAllowance: set of rows
    sponsored_allowance_base_models,
                            \* table SponsoredAllowanceBaseModels: set of rows
                            \* [sponsored_allowance_id, base_model_id]
    row_order,              \* the ids of the SponsoredAllowance rows in the order
                            \* in which a query without ORDER BY yields them:
                            \* the order of their insertion
    group_order,            \* the model ids of the pricing table in the order in
                            \* which the database lists the groups of a
                            \* GROUP BY model_id: the queries name no order, so
                            \* any ranking of the ids is possible
    token_usage_log,        \* table TokenUsageLog: sequence of rows, in insertion order
    today,                  \* the server's current date (date.today(), datetime.now())
    ret,                    \* outcome of the most recent TokenTracker call: [op, err]
    req,                    \* the pipe calls in progress: request number -> record
    messages,               \* the message list of the request body handed to _payload
    popped                  \* what pop_system_message returned for it

vars == <<model_pricing, base_setting, credit_group, credit_group_user,
          sponsored_allowance, sponsored_allowance_base_models, row_order,
          group_order, token_usage_log, today, ret, req, messages, popped>>

\* the state of utils.pop_system_message and its caller
utils == <<messages, popped>>

tables == <<model_pricing, base_setting, credit_group, credit_group_user,
            sponsored_allowance, sponsored_allowance_base_models, row_order,
            group_order>>

\* the database and the clock, as the tracker reads them
DB ==
    [model_pricing |-> model_pricing, base_setting |-> base_setting,
     credit_group |-> credit_group, credit_group_user |-> credit_group_user,
     sponsored_allowance |-> sponsored_allowance,
     sponsored_allowance_base_models |-> sponsored_allowance_base_models,
     row_order |-> row_order, group_order |-> group_order,
     token_usage_log |-> token_usage_log, today |-> today]

-----------------------------------------------------------------------------
(* Bounds of the model *)

\* Most rows the usage log holds
MaxLog == 2
\* The last day the clock reaches
MaxDay == 3
\* Days of one calendar month (monthrange)
DaysPerMonth == 2
\* Concurrent pipe calls
NReq == 2
\* Most sponsored allowances the administrator keeps at a time
MaxAllowances == 2
\* Most messages of a request body
MaxMessages == 3
\* Text chunks of one provider stream
MaxChunks == 2

-----------------------------------------------------------------------------
(* Python values *)

None == "None"

NoInt == << >>
Some(v) == <<v>>

Ok(v) == [ok |-> TRUE, val |-> v, err |-> "none", msg |-> "none"]
Raise(e) == [ok |-> FALSE, val |-> << >>, err |-> e, msg |-> "none"]
RaiseMsg(e, m) == [ok |-> FALSE, val |-> << >>, err |-> e, msg |-> m]

\* bool(s) of an Optional[str]: None and the empty string are falsy
Truthy(s) == s # None /\ s # ""

\* Naturals of any size, for the 53-bit mantissas of Python's floats: the
\* sequence of the limbs to the base 2^15, the lowest limb first, without a
\* zero limb at the top; << >> is 0.
Limb == 32768
LimbBits == 15

RECURSIVE BNorm(_)
BNorm(a) ==
    IF a = << >> THEN a
    ELSE IF a[Len(a)] = 0 THEN BNorm(SubSeq(a, 1, Len(a) - 1))
    ELSE a

RECURSIVE BOfInt(_)
BOfInt(n) == IF n = 0 THEN << >> ELSE <<n % Limb>> \o BOfInt(n \div Limb)

RECURSIVE BToInt(_)
BToInt(a) == IF a = << >> THEN 0 ELSE a[1] + Limb * BToInt(Tail(a))

BAt(a, i) == IF i <= Len(a) THEN a[i] ELSE 0

\* the limbs of a + b from limb i on, carry coming from the limbs below
RECURSIVE BAddFrom(_, _, _, _)
BAddFrom(a, b, i, carry) ==
    IF i > Len(a) /\ i > Len(b) THEN (IF carry = 0 THEN << >> ELSE <<carry>>)
    ELSE <<(BAt(a, i) + BAt(b, i) + carry) % Limb>>
             \o BAddFrom(a, b, i + 1, (BAt(a, i) + BAt(b, i) + carry) \div Limb)

BAdd(a, b) == BAddFrom(a, b, 1, 0)

\* the limbs of a - b from limb i on, borrow taken by the limbs below
RECURSIVE BSubFrom(_, _, _, _)
BSubFrom(a, b, i, borrow) ==
    IF i > Len(a) THEN << >>
    ELSE <<(Limb + BAt(a, i) - BAt(b, i) - borrow) % Limb>>
             \o BSubFrom(a, b, i + 1, IF BAt(a, i) - BAt(b, i) - borrow < 0 THEN 1 ELSE 0)

\* a - b for a >= b
BSub(a, b) == BNorm(BSubFrom(a, b, 1, 0))

\* a < b
RECURSIVE BLess(_, _)
BLess(a, b) ==
    IF Len(a) # Len(b) THEN Len(a) < Len(b)
    ELSE IF a = << >> THEN FALSE
    ELSE IF a[Len(a)] # b[Len(b)] THEN a[Len(a)] < b[Len(b)]
    ELSE BLess(BNorm(SubSeq(a, 1, Len(a) - 1)), BNorm(SubSeq(b, 1, Len(b) - 1)))

\* a * k for a limb k
RECURSIVE BMulFrom(_, _, _, _)
BMulFrom(a, k, i, carry) ==
    IF i > Len(a) THEN (IF carry = 0 THEN << >> ELSE <<carry>>)
    ELSE <<(a[i] * k + carry) % Limb>> \o BMulFrom(a, k, i + 1, (a[i] * k + carry) \div Limb)

BMulSmall(a, k) == IF k = 1 THEN a ELSE BNorm(BMulFrom(a, k, 1, 0))

RECURSIVE BMul(_, _)
BMul(a, b) ==
    IF b = << >> THEN << >>
    ELSE IF Len(b) = 1 THEN BMulSmall(a, b[1])
    ELSE BAdd(BMulSmall(a, b[1]), BNorm(<<0>> \o BMul(a, Tail(b))))

\* the limbs 1..i of a \div d, r the remainder of the limbs above i
RECURSIVE BDivFrom(_, _, _, _)
BDivFrom(a, d, i, r) ==
    IF i = 0 THEN << >>
    ELSE BDivFrom(a, d, i - 1, (r * Limb + a[i]) % d) \o <<(r * Limb + a[i]) \div d>>

\* a \div d for a d of at most 2^15
BDivSmall(a, d) == IF d = 1 THEN a ELSE BNorm(BDivFrom(a, d, Len(a), 0))

\* a * 2^k and a \div 2^k
BShl(a, k) ==
    IF k = 0 \/ a = << >> THEN a
    ELSE [i \in 1..(k \div LimbBits) |-> 0] \o BMulSmall(a, 2 ^ (k % LimbBits))
BShr(a, k) ==
    IF k = 0 THEN a
    ELSE IF k \div LimbBits >= Len(a) THEN << >>
    ELSE BDivSmall(SubSeq(a, (k \div LimbBits) + 1, Len(a)), 2 ^ (k % LimbBits))

RECURSIVE BitLenInt(_)
BitLenInt(n) == IF n = 0 THEN 0 ELSE 1 + BitLenInt(n \div 2)

\* the number of bits of a
BBitLen(a) ==
    IF a = << >> THEN 0 ELSE LimbBits * (Len(a) - 1) + BitLenInt(a[Len(a)])

\* the number of zero bits at the low end of an a above 0
RECURSIVE BTz(_)
BTz(a) ==
    IF a[1] = 0 THEN LimbBits + BTz(Tail(a))
    ELSE IF a[1] % 2 = 1 THEN 0
    ELSE 1 + BTz(<<a[1] \div 2>>)

\* A Python float (an IEEE 754 double, its exponent range left aside):
\* [neg, man, exp] stands for (-1)^neg * man * 2^exp, man odd and below 2^53,
\* or 0 with exp 0.
MantissaBits == 53

FloatZero == [neg |-> FALSE, man |-> << >>, exp |-> 0]

\* man * 2^exp with the zero bits at the low end of man moved to the exponent
Canon(neg, man, exp) ==
    IF man = << >> THEN FloatZero
    ELSE LET z == BTz(man)
         IN  [neg |-> neg, man |-> BShr(man, z), exp |-> exp + z]

\* the float nearest to man * 2^exp, or to a value just above it (sticky),
\* a tie going to the even mantissa
RoundFloat(neg, man, exp, sticky) ==
    LET d == BBitLen(man) - MantissaBits
        bit(k) == (BAt(man, (k \div LimbBits) + 1) \div (2 ^ (k % LimbBits))) % 2
    IN  IF d <= 0 THEN Canon(neg, man, exp)
        ELSE LET q == BShr(man, d)
                 half == bit(d - 1) = 1
                 rest == sticky \/ BTz(man) < d - 1
                 up == half /\ (rest \/ bit(d) = 1)
             IN  Canon(neg, IF up THEN BAdd(q, <<1>>) ELSE q, exp + d)

\* float(k) of an int
FloatOfInt(k) == RoundFloat(k < 0, BOfInt(IF k < 0 THEN -k ELSE k), 0, FALSE)

\* the digits of a / b, c bits at a time, until the quotient is exact or has
\* two bits more than a mantissa; r is the remainder so far, r * 2^c an int
RECURSIVE DivDigits(_, _, _, _, _)
DivDigits(man, r, b, exp, c) ==
    IF r = 0 \/ BBitLen(man) >= MantissaBits + 2
    THEN [man |-> man, r |-> r, exp |-> exp]
    ELSE IF c = LimbBits
    THEN DivDigits(BNorm(<<(r * Limb) \div b>> \o man), (r * Limb) % b, b, exp - c, c)
    ELSE DivDigits(BAdd(BShl(man, c), BOfInt((r * (2 ^ c)) \div b)),
                   (r * (2 ^ c)) % b, b, exp - c, c)

\* p / q of two ints, q not 0: the float nearest to the quotient
FloatDiv(p, q) ==
    LET a == IF p < 0 THEN -p ELSE p
        b == IF q < 0 THEN -q ELSE q
        c == IF BitLenInt(b) <= 16 THEN LimbBits ELSE 31 - BitLenInt(b)
        d == DivDigits(BOfInt(a \div b), a % b, b, 0, c)
    IN  IF p = 0 THEN FloatZero
        ELSE RoundFloat((p < 0) # (q < 0), d.man, d.exp, d.r # 0)

\* x * k of a float and an int
FloatMulInt(x, k) ==
    IF k = 0 THEN FloatZero
    ELSE RoundFloat(x.neg # (k < 0), BMul(x.man, BOfInt(IF k < 0 THEN -k ELSE k)), x.exp, FALSE)

\* x + y of two floats
FloatAdd(x, y) ==
    LET e == IF x.exp <= y.exp THEN x.exp ELSE y.exp
        a == BShl(x.man, x.exp - e)
        b == BShl(y.man, y.exp - e)
    IN  IF x.man = << >> THEN y
        ELSE IF y.man = << >> THEN x
        ELSE IF x.neg = y.neg THEN RoundFloat(x.neg, BAdd(a, b), e, FALSE)
        ELSE IF BLess(a, b) THEN RoundFloat(y.neg, BSub(b, a), e, FALSE)
        ELSE RoundFloat(x.neg /\ a # b, BSub(a, b), e, FALSE)

\* k - x of an int and a float
IntSubFloat(k, x) == FloatAdd(FloatOfInt(k), [x EXCEPT !.neg = ~x.neg /\ x.man # << >>])

\* int(x) of a float: truncation toward zero
PyInt(x) ==
    LET n == IF x.exp >= 0 THEN BToInt(BShl(x.man, x.exp))
             ELSE BToInt(BShr(x.man, -x.exp))
    IN  IF x.neg THEN -n ELSE n

\* int(s) of a decimal string, the string given as its sequence of digits
RECURSIVE IntOfDigits(_)
IntOfDigits(ds) ==
    IF ds = << >> THEN 0
    ELSE 10 * IntOfDigits(SubSeq(ds, 1, Len(ds) - 1)) + ds[Len(ds)]

-----------------------------------------------------------------------------
(* The stores the models start from *)

Users == {"u1", "u2"}

\* ModelPricing rows.  "m1" is paid, half a credit per input token and two per
\* output token, "free" costs nothing.  The id "nocat" has no row.
Catalog ==
    << [id |-> "m1", provider |-> "openai",
        input_cost_credits |-> 1, per_input_tokens |-> 2,
        output_cost_credits |-> 2, per_output_tokens |-> 1],
       [id |-> "free", provider |-> "openai",
        input_cost_credits |-> 0, per_input_tokens |-> 1,
        output_cost_credits |-> 0, per_output_tokens |-> 1] >>

\* a row of the join table: the allowance covers the base model
BaseModelRow(sponsored_allowance_id, base_model_id) ==
    [sponsored_allowance_id |-> sponsored_allowance_id, base_model_id |-> base_model_id]

\* SponsoredAllowance rows: "x", and one whose name is the empty string
AllowanceX ==
    [id |-> "idX", name |-> "x", sponsor_id |-> "s1",
     total_credit_limit |-> 5, monthly_credit_limit |-> Some(3),
     creation_date |-> 1]

AllowanceE ==
    [id |-> "idE", name |-> "", sponsor_id |-> "s1",
     total_credit_limit |-> 3, monthly_credit_limit |-> Some(3),
     creation_date |-> 1]

\* the ids of the ModelPricing rows
ModelList(models) == {models[k].id : k \in DOMAIN models}

\* every order in which the database can list the groups of a GROUP BY
\* model_id: the rankings of the ids of the pricing table
GroupOrders(models) ==
    {o \in [1..Cardinality(ModelList(models)) -> ModelList(models)] :
        \A i, j \in DOMAIN o : o[i] = o[j] => i = j}

InitTables ==
    /\ model_pricing = Catalog
    /\ base_setting = [base_credit_allowance |-> <<3>>]
    /\ credit_group = << [id |-> "g1", max_credit |-> 3], [id |-> "g2", max_credit |-> 1] >>
    /\ credit_group_user = {[credit_group_id |-> "g1", user_id |-> "u1"]}
    /\ sponsored_allowance = {AllowanceX, AllowanceE}
    /\ sponsored_allowance_base_models = {BaseModelRow("idX", "m1"), BaseModelRow("idE", "m1")}
    /\ row_order = <<"idX", "idE">>
    /\ group_order \in GroupOrders(model_pricing)

-----------------------------------------------------------------------------
(* TokenTracker: the read operations *)

\* SQL sum(field) over the log positions `rows`
SumOver(db, rows, field) ==
    LET acc[i \in 0..Len(db.token_usage_log)] ==
            IF i = 0 THEN 0
            ELSE acc[i - 1] + (IF i \in rows THEN db.token_usage_log[i][field] ELSE 0)
    IN  acc[Len(db.token_usage_log)]

\* get_models(provider): every ModelPricing row (provider = None), or a provider's rows
get_models(db, provider) ==
    IF provider = None THEN db.model_pricing
    ELSE SelectSeq(db.model_pricing, LAMBDA m : m.provider = provider)

\* is_paid asking for both costs to be positive
is_paid_BothPositive(db, model_id) ==
    LET model == SelectSeq(get_models(db, None), LAMBDA m : m.id = model_id)
    IN  IF Len(model) # 1 THEN Raise("RuntimeError")
        ELSE Ok(model[1].input_cost_credits > 0 /\ model[1].output_cost_credits > 0)

\* is_paid taking the first of several entries
is_paid_FirstMatch(db, model_id) ==
    LET model == SelectSeq(get_models(db, None), LAMBDA m : m.id = model_id)
    IN  IF Len(model) = 0 THEN Raise("RuntimeError")
        ELSE Ok(model[1].input_cost_credits > 0 \/ model[1].output_cost_credits > 0)

\* is_paid(model_id)
is_paid(db, model_id) ==
    LET model == SelectSeq(get_models(db, None), LAMBDA m : m.id = model_id)
    IN  IF Len(model) # 1 THEN Raise("RuntimeError")
        ELSE Ok(model[1].input_cost_credits > 0 \/ model[1].output_cost_credits > 0)

\* next((item for item in models if item.id == cur_model), None): the first match
ModelData(models, cur_model) ==
    LET hits == SelectSeq(models, LAMBDA m : m.id = cur_model)
    IN  hits[1]

\* the cost of one record (model, prompt tokens, response tokens), a float
ModelCost(row, models) ==
    LET model_data == ModelData(models, row.model_id)
    IN  FloatAdd(
          FloatMulInt(FloatDiv(model_data.input_cost_credits, model_data.per_input_tokens),
                      row.prompt_tokens_sum),
          FloatMulInt(FloatDiv(model_data.output_cost_credits, model_data.per_output_tokens),
                      row.response_tokens_sum))

\* _calc_credits_from_tokens truncating the cost of every model before adding
calc_credits_from_tokens_PerModel(records, models) ==
    LET used_credits[i \in 0..Len(records)] ==
            IF i = 0 THEN FloatZero
            ELSE FloatAdd(used_credits[i - 1], FloatOfInt(PyInt(ModelCost(records[i], models))))
    IN  used_credits[Len(records)]

\* _calc_credits_from_tokens(records, models): the loop
\* used_credits += model_cost over the records; a float, not yet truncated
calc_credits_from_tokens(records, models) ==
    LET used_credits[i \in 0..Len(records)] ==
            IF i = 0 THEN FloatZero
            ELSE FloatAdd(used_credits[i - 1], ModelCost(records[i], models))
    IN  used_credits[Len(records)]

\* SELECT model_id, sum(prompt_tokens), sum(response_tokens) ... GROUP BY model_id
\* over the log positions `rows`: one record per model id that has a row, as
\* fetchall() lists them, in the order in which the database lists the groups
GroupByModel(db, rows) ==
    LET ids == SelectSeq(db.group_order,
                   LAMBDA m : \E i \in rows : db.token_usage_log[i].model_id = m)
    IN  [k \in 1..Len(ids) |->
            [model_id |-> ids[k],
             prompt_tokens_sum |->
                 SumOver(db, {i \in rows : db.token_usage_log[i].model_id = ids[k]},
                         "prompt_tokens"),
             response_tokens_sum |->
                 SumOver(db, {i \in rows : db.token_usage_log[i].model_id = ids[k]},
                         "response_tokens")]]


\* first and last day of the calendar month holding day d
MonthOf(d) == (d - 1) \div DaysPerMonth
FirstDay(d) == MonthOf(d) * DaysPerMonth + 1
\* a window that stops one day before the month's last day
LastDay_Short(d) == (MonthOf(d) + 1) * DaysPerMonth - 1
LastDay(d) == (MonthOf(d) + 1) * DaysPerMonth

\* Query.scalar() over the values of the matching rows: None for no row, the
\* value for one row, MultipleResultsFound for more
Scalar(values, n) ==
    IF n = 0 THEN Ok(NoInt)
    ELSE IF n = 1 THEN Ok(CHOOSE v \in values : TRUE)
    ELSE Raise("MultipleResultsFound")

\* the sum of max_credit without the join on the user's memberships
SumMaxCredit_AllGroups(db, user) ==
    LET acc[i \in 0..Len(db.credit_group)] ==
            IF i = 0 THEN 0 ELSE acc[i - 1] + db.credit_group[i].max_credit
    IN  acc[Len(db.credit_group)]

\* coalesce(sum(CreditGroup.max_credit), 0) over CreditGroup joined with
\* CreditGroupUser, for the memberships of the user
SumMaxCredit(db, user) ==
    LET acc[i \in 0..Len(db.credit_group)] ==
            IF i = 0 THEN 0
            ELSE acc[i - 1] +
                 (IF \E m \in db.credit_group_user :
                         /\ m.credit_group_id = db.credit_group[i].id
                         /\ m.user_id = user
                  THEN db.credit_group[i].max_credit ELSE 0)
    IN  acc[Len(db.credit_group)]

\* max_credits adding the base allowance to an allowance's monthly limit
max_credits_AddsBase(db, user, sponsored_allowance_name, sponsored_allowance_id) ==
    IF sponsored_allowance_name # None /\ sponsored_allowance_id # None
    THEN Raise("RuntimeError")
    ELSE LET base_allowance == IntOfDigits(db.base_setting.base_credit_allowance)
             hits == {a \in db.sponsored_allowance :
                         \/ a.name = sponsored_allowance_name
                         \/ a.id = sponsored_allowance_id}
         IN  IF sponsored_allowance_name = None /\ sponsored_allowance_id = None
             THEN Ok(Some(base_allowance + SumMaxCredit(db, user)))
             ELSE IF hits = {} THEN Ok(NoInt)
             ELSE LET limit == (CHOOSE a \in hits : TRUE).monthly_credit_limit
                  IN  IF limit = NoInt THEN Ok(NoInt)
                      ELSE Ok(Some(base_allowance + limit[1]))

\* max_credits looking the name up when a name and an id are both passed
max_credits_NameWins(db, user, sponsored_allowance_name, sponsored_allowance_id) ==
    IF sponsored_allowance_name = None /\ sponsored_allowance_id = None
    THEN Ok(Some(IntOfDigits(db.base_setting.base_credit_allowance) + SumMaxCredit(db, user)))
    ELSE IF sponsored_allowance_name # None
    THEN LET hits == {a \in db.sponsored_allowance : a.name = sponsored_allowance_name}
         IN  Scalar({a.monthly_credit_limit : a \in hits}, Cardinality(hits))
    ELSE LET hits == {a \in db.sponsored_allowance : a.id = sponsored_allowance_id}
         IN  Scalar({a.monthly_credit_limit : a \in hits}, Cardinality(hits))

\* max_credits(user, sponsored_allowance_name, sponsored_allowance_id): an
\* Optional[int]
max_credits(db, user, sponsored_allowance_name, sponsored_allowance_id) ==
    IF sponsored_allowance_name # None /\ sponsored_allowance_id # None
    THEN Raise("RuntimeError")
    ELSE IF sponsored_allowance_name = None /\ sponsored_allowance_id = None
    THEN LET base_allowance == IntOfDigits(db.base_setting.base_credit_allowance)
             group_allowances == SumMaxCredit(db, user)
         IN  Ok(Some(base_allowance + group_allowances))
    ELSE IF sponsored_allowance_name # None
    THEN LET hits == {a \in db.sponsored_allowance : a.name = sponsored_allowance_name}
         IN  Scalar({a.monthly_credit_limit : a \in hits}, Cardinality(hits))
    ELSE LET hits == {a \in db.sponsored_allowance : a.id = sponsored_allowance_id}
         IN  Scalar({a.monthly_credit_limit : a \in hits}, Cardinality(hits))

\* the relationship SponsoredAllowance.base_models: the base models the join
\* table associates with the allowance
BaseModelsOf(db, id) ==
    {j.base_model_id : j \in {k \in db.sponsored_allowance_base_models :
                                  k.sponsored_allowance_id = id}}

\* query.first(): of the rows a query matches, the one the database yields
\* first
FirstRow(db, hits) ==
    LET at(id) == CHOOSE k \in DOMAIN db.row_order : db.row_order[k] = id
    IN  CHOOSE a \in hits : \A b \in hits : at(a.id) <= at(b.id)

\* get_sponsored_allowance(name=...): the dictionary made of the first row
\* of that name, or KeyError
get_sponsored_allowance(db, name) ==
    LET hits == {a \in db.sponsored_allowance : a.name = name}
    IN  IF hits = {} THEN Raise("KeyError")
        ELSE LET a == FirstRow(db, hits)
             IN  Ok([id |-> a.id, name |-> a.name, sponsor_id |-> a.sponsor_id,
                     total_credit_limit |-> a.total_credit_limit,
                     monthly_credit_limit |-> a.monthly_credit_limit,
                     base_models |-> BaseModelsOf(db, a.id)])

\* _remaining_user_credits without the filter on the user
UserMonthRows_AnyUser(db, user, sponsored_allowance_id) ==
    {i \in DOMAIN db.token_usage_log :
        /\ db.token_usage_log[i].log_date >= (((db.today - 1) \div DaysPerMonth) * DaysPerMonth + 1)
        /\ db.token_usage_log[i].log_date <= ((((db.today - 1) \div DaysPerMonth) + 1) * DaysPerMonth)
        /\ db.token_usage_log[i].sponsored_allowance_id = sponsored_allowance_id}

\* the log rows _remaining_user_credits sums: this user's, dated in the
\* current month, of a model of the catalog, in the given scope
UserMonthRows(db, user, sponsored_allowance_id) ==
    {i \in DOMAIN db.token_usage_log :
        /\ db.token_usage_log[i].user_id = user
        /\ db.token_usage_log[i].log_date >= FirstDay(db.today)
        /\ db.token_usage_log[i].log_date <= LastDay(db.today)
        /\ db.token_usage_log[i].model_id \in ModelList(get_models(db, None))
        /\ db.token_usage_log[i].sponsored_allowance_id = sponsored_allowance_id}

\* _remaining_user_credits(user, sponsored_allowance_id)
remaining_user_credits(db, user, sponsored_allowance_id) ==
    LET models == get_models(db, None)
        results == GroupByModel(db, UserMonthRows(db, user, sponsored_allowance_id))
        used_monthly_credits == calc_credits_from_tokens(results, models)
        maxc == max_credits(db, user, None, sponsored_allowance_id)
    IN  IF ~maxc.ok THEN maxc
        ELSE IF maxc.val = NoInt THEN Raise("TypeError")
        ELSE Ok(maxc.val[1] - PyInt(used_monthly_credits))

\* _remaining_sponsored_credits summing the rows of every scope
SponsoredRows_AnyScope(db, sponsored_allowance_id, creation_date) ==
    {i \in DOMAIN db.token_usage_log :
        /\ db.token_usage_log[i].log_date <= creation_date
        /\ db.token_usage_log[i].model_id \in ModelList(get_models(db, None))}

\* the log rows _remaining_sponsored_credits sums: any user's rows of the
\* allowance whose date is not after the allowance's creation date
SponsoredRows(db, sponsored_allowance_id, creation_date) ==
    {i \in DOMAIN db.token_usage_log :
        /\ db.token_usage_log[i].sponsored_allowance_id = sponsored_allowance_id
        /\ db.token_usage_log[i].log_date <= creation_date
        /\ db.token_usage_log[i].model_id \in ModelList(get_models(db, None))}

\* _remaining_sponsored_credits(sponsored_allowance_id)
remaining_sponsored_credits(db, sponsored_allowance_id) ==
    LET hits == {a \in db.sponsored_allowance : a.id = sponsored_allowance_id}
    IN  IF hits = {} THEN Raise("TypeError")
        ELSE LET a == CHOOSE h \in hits : TRUE
                 models == get_models(db, None)
                 results == GroupByModel(db, SponsoredRows(db, sponsored_allowance_id,
                                                       a.creation_date))
                 total_credits_used == calc_credits_from_tokens(results, models)
             IN  Ok(PyInt(IntSubFloat(a.total_credit_limit, total_credits_used)))

\* remaining_credits as its callees read the store: get_sponsored_allowance
\* and _remaining_user_credits read udb, _remaining_sponsored_credits, which
\* runs after them in a session of its own, reads sdb
remaining_credits_at(udb, sdb, user, sponsored_allowance_name) ==
    LET found == IF sponsored_allowance_name # None
                 THEN get_sponsored_allowance(udb, sponsored_allowance_name)
                 ELSE Ok([id |-> None])
        result(user_credits_remaining, total) ==
            IF ~user_credits_remaining.ok THEN user_credits_remaining
            ELSE IF ~total.ok THEN total
            ELSE Ok([monthly |-> user_credits_remaining.val,
                     total |-> IF Truthy(sponsored_allowance_name)
                               THEN Some(total.val) ELSE NoInt])
    IN  IF ~found.ok THEN found
        ELSE result(remaining_user_credits(udb, user, found.val.id),
                    IF Truthy(sponsored_allowance_name)
                    THEN remaining_sponsored_credits(sdb, found.val.id)
                    ELSE Ok(0))

\* remaining_credits(user, sponsored_allowance_name): the pair
\* [monthly, total], total an Optional[int], read from one store
remaining_credits(db, user, sponsored_allowance_name) ==
    remaining_credits_at(db, db, user, sponsored_allowance_name)

-----------------------------------------------------------------------------
(* BaseTrackedPipe._check_limits *)

\* a limit that refuses only below zero
Exhausted_BelowZero(remaining) == remaining < 0

\* `<= 0`: nothing is left of a limit
Exhausted(remaining) == remaining <= 0

\* _check_limits without the early return for a model that is not paid
check_limits_GatesFree(db, model_id, user, sponsored_allowance_name) ==
    LET limits(rc) ==
            IF ~rc.ok THEN rc
            ELSE IF rc.val.total # NoInt /\ rc.val.total[1] <= 0
            THEN RaiseMsg("TotalTokenLimitExceededError", "sponsored")
            ELSE IF rc.val.monthly <= 0
            THEN RaiseMsg("MonthlyTokenLimitExceededError",
                          IF sponsored_allowance_name # None THEN "sponsored" ELSE "general")
            ELSE Ok(TRUE)
    IN  limits(remaining_credits(db, user, sponsored_allowance_name))

\* _check_limits as its reads fall: is_paid and what remaining_credits reads
\* up to _remaining_user_credits see udb; _remaining_sponsored_credits and
\* the max_credits of a limit message see sdb.  Ok(TRUE) or the exception
\* raised; msg tells which allowance a limit error's message names.
check_limits_at(udb, sdb, model_id, user, sponsored_allowance_name) ==
    LET paid == is_paid(udb, model_id)
        limits(rc) ==
            IF ~rc.ok THEN rc
            ELSE IF rc.val.total # NoInt /\ Exhausted(rc.val.total[1])
            THEN RaiseMsg("TotalTokenLimitExceededError", "sponsored")
            ELSE IF sponsored_allowance_name # None /\ Exhausted(rc.val.monthly)
            THEN LET maxc == max_credits(sdb, user, sponsored_allowance_name, None)
                 IN  IF ~maxc.ok THEN maxc
                     ELSE RaiseMsg("MonthlyTokenLimitExceededError", "sponsored")
            ELSE IF Exhausted(rc.val.monthly)
            THEN LET maxc == max_credits(sdb, user, None, None)
                 IN  IF ~maxc.ok THEN maxc
                     ELSE RaiseMsg("MonthlyTokenLimitExceededError", "general")
            ELSE Ok(TRUE)
    IN  IF ~paid.ok THEN paid
        ELSE IF ~paid.val THEN Ok(TRUE)
        ELSE limits(remaining_credits_at(udb, sdb, user, sponsored_allowance_name))

\* _check_limits(model_id, user, sponsored_allowance_name) on one store
check_limits(db, model_id, user, sponsored_allowance_name) ==
    check_limits_at(db, db, model_id, user, sponsored_allowance_name)

\* an except clause that names TotalTokenLimitExceededError alone
LimitErrors_TotalOnly == {"TotalTokenLimitExceededError"}

\* the subclasses of TokenLimitExceededError
LimitErrors == {"MonthlyTokenLimitExceededError", "TotalTokenLimitExceededError"}

-----------------------------------------------------------------------------
(* TokenTracker.log_token_usage *)

\* the TokenUsageLog row log_token_usage builds
UsageRow(provider, model_id, user, prompt_tokens, response_tokens, sponsored_allowance_id) ==
    [provider |-> provider, user_id |-> user, model_id |-> model_id,
     prompt_tokens |-> prompt_tokens, response_tokens |-> response_tokens,
     sponsored_allowance_id |-> sponsored_allowance_id, log_date |-> today]

\* log_token_usage falling back to the personal scope for an unknown name
ResolveAllowance_Fallback(sponsored_allowance_name) ==
    LET found == get_sponsored_allowance(DB, sponsored_allowance_name)
    IN  IF sponsored_allowance_name # None /\ found.ok THEN found
        ELSE Ok([id |-> None])

\* the allowance id log_token_usage resolves the name to
ResolveAllowance(sponsored_allowance_name) ==
    IF sponsored_allowance_name # None
    THEN get_sponsored_allowance(DB, sponsored_allowance_name)
    ELSE Ok([id |-> None])

\* log_token_usage(...): its effect on the usage log and its outcome.  The
\* row is added and committed, or the lookup of the name raises KeyError
\* before session.add.
log_token_usage(provider, model_id, user, prompt_tokens, response_tokens, sponsored_allowance_name) ==
    LET found == ResolveAllowance(sponsored_allowance_name)
    IN  /\ IF found.ok
           THEN token_usage_log' =
                    Append(token_usage_log,
                           UsageRow(provider, model_id, user, prompt_tokens,
                                    response_tokens, found.val.id))
           ELSE UNCHANGED token_usage_log
        /\ ret' = [op |-> "log_token_usage", err |-> found.err]

\* the provider a direct caller of the tracker passes with its model
LedgerProvider == "openai"

-----------------------------------------------------------------------------
(* utils.pop_system_message *)

\* A message is [role, content].  A content is [kind, text, items]: a str
\* (kind "str", its value in text), a list of parts (kind "list", the parts
\* in items, each [type, text]), or None (kind "none").  A returned
\* Optional[str] is << >> for None and <<ws>> for the string made of the
\* pieces ws joined by single spaces.
StrContent(text) == [kind |-> "str", text |-> text, items |-> << >>]
ListContent(items) == [kind |-> "list", text |-> "", items |-> items]
NoContent == [kind |-> "none", text |-> "", items |-> << >>]
Message(role, content) == [role |-> role, content |-> content]

\* the messages a request body is made of
MessageKinds ==
    { Message("system", StrContent("S1")),
      Message("system", ListContent(<< [type |-> "text", text |-> "S2"],
                                       [type |-> "image_url", text |-> ""],
                                       [type |-> "text", text |-> "S3"] >>)),
      Message("system", NoContent),
      Message("user", StrContent("U")),
      Message("assistant", StrContent("A")) }

\* the system_message pop_system_message takes from a content: the str
\* itself, the text parts of a list joined by " " (None without text parts),
\* None for anything else
ContentText(content) ==
    IF content.kind = "str" THEN Some(<<content.text>>)
    ELSE IF content.kind = "list"
    THEN LET text_parts == SelectSeq(content.items, LAMBDA item : item.type = "text")
         IN  IF text_parts # << >>
             THEN Some([k \in 1..Len(text_parts) |-> text_parts[k].text])
             ELSE NoInt
    ELSE NoInt

\* the loop of pop_system_message from position k on
RECURSIVE PopLoop(_, _, _, _, _)
PopLoop(msgs, k, system_message, remaining_messages, system_found) ==
    IF k > Len(msgs)
    THEN [system_message |-> system_message, remaining |-> remaining_messages]
    ELSE IF msgs[k].role = "system" /\ ~system_found
    THEN PopLoop(msgs, k + 1, ContentText(msgs[k].content), remaining_messages, TRUE)
    ELSE PopLoop(msgs, k + 1, system_message, Append(remaining_messages, msgs[k]),
                 system_found)

\* pop_system_message(messages)
pop_system_message(msgs) == PopLoop(msgs, 1, NoInt, << >>, FALSE)

-----------------------------------------------------------------------------
(* The pipe calls *)

\* one pipe call: where it stands (pc), the provider of the pipe that
\* serves it (self.provider), its arguments, and what it has done
\* so far: the outcome of its check, the number of committed rows at its
\* check (seen), whether the provider request was issued (dispatched) and
\* has completed (completed), the rows it appended (rows), the arguments
\* _check_limits (gate) and log_token_usage (billed) were called with; of a
\* call followed block by block, the sessions it has opened so far (opened),
\* those open now (sessions), and the blocks and writes the function it is
\* in has yet to go through (script); of a stream followed event by event,
\* the provider events still to come (events) and the number of chunks
\* yielded to the consumer (yielded)
IdleReq ==
    [pc |-> "idle", provider |-> None, user |-> None, model_id |-> None, name |-> None,
     stream |-> FALSE, check |-> "none", seen |-> 0, dispatched |-> FALSE,
     completed |-> FALSE, prompt_tokens |-> 0, response_tokens |-> 0,
     rows |-> 0, result |-> "none", gate |-> << >>, billed |-> << >>,
     opened |-> 0, sessions |-> 0, script |-> << >>,
     events |-> << >>, yielded |-> 0]

\* _check_limits goes on to _remaining_sponsored_credits: the model is paid,
\* the name is truthy and found, and _remaining_user_credits has returned
ReadsTotal(db, model_id, user, name) ==
    /\ is_paid(db, model_id).ok
    /\ is_paid(db, model_id).val
    /\ Truthy(name)
    /\ get_sponsored_allowance(db, name).ok
    /\ remaining_user_credits(db, user, get_sponsored_allowance(db, name).val.id).ok

InitReq == req = [i \in 1..NReq |-> IdleReq]

\* no request body has been handed to _payload
InitUtils ==
    /\ messages = << >>
    /\ popped = [called |-> FALSE, system_message |-> << >>, remaining |-> << >>]

-----------------------------------------------------------------------------
(* The ledger driven through its API: Spec *)

LedgerNames == {None, "x", "", "zz"}
LedgerTokens == {<<2, 1>>}
\* the calls made: <<model_id, user, sponsored_allowance_name>>.  The paid
\* model by every user under every name that resolves, the free model in the
\* personal scope and under "x", and one call under a name that does not
\* resolve.
LedgerCalls ==
    {<<"m1", u, n>> : u \in Users, n \in LedgerNames \ {"zz"}}
        \cup {<<"free", "u1", None>>, <<"free", "u2", "x">>, <<"m1", "u1", "zz">>}

Init ==
    /\ InitTables
    /\ token_usage_log = << >>
    /\ today = 1
    /\ ret = [op |-> "none", err |-> "none"]
    /\ InitReq
    /\ InitUtils

\* a caller logs usage directly on the tracker
CallLogTokenUsage(model_id, user, prompt_tokens, response_tokens, name) ==
    /\ Len(token_usage_log) < MaxLog
    /\ log_token_usage(LedgerProvider, model_id, user, prompt_tokens,
                       response_tokens, name)
    /\ UNCHANGED <<tables, today, req, utils>>

\* midnight passes
NextDay ==
    /\ today < MaxDay
    /\ today' = today + 1
    /\ UNCHANGED <<tables, token_usage_log, ret, req, utils>>

Next ==
    \/ \E c \in LedgerCalls, t \in LedgerTokens :
           CallLogTokenUsage(c[1], c[2], t[1], t[2], c[3])
    \/ NextDay

Spec == Init /\ [][Next]_vars

-----------------------------------------------------------------------------
(* The ledger under calls of fractional cost: RoundSpec *)

\* ModelPricing rows with rates binary floating point does not hold exactly:
\* "m3" costs a credit per 3 tokens, prompt or response, "m6" a credit per 2
\* prompt tokens and a credit per 3 response tokens
RoundCatalog ==
    << [id |-> "m1", provider |-> "openai",
        input_cost_credits |-> 1, per_input_tokens |-> 2,
        output_cost_credits |-> 2, per_output_tokens |-> 1],
       [id |-> "m3", provider |-> "openai",
        input_cost_credits |-> 1, per_input_tokens |-> 3,
        output_cost_credits |-> 1, per_output_tokens |-> 3],
       [id |-> "m6", provider |-> "openai",
        input_cost_credits |-> 1, per_input_tokens |-> 2,
        output_cost_credits |-> 1, per_output_tokens |-> 3] >>

\* the <<prompt_tokens, response_tokens>> of the calls of a model: one and
\* one, on "m1" two credits and a half, on "m3" two thirds of a credit, on
\* "m6" five sixths; on "m3" also three tokens, none and three or one and
\* two, a whole credit
RoundTokens(model_id) ==
    IF model_id = "m3" THEN {<<1, 1>>, <<0, 3>>, <<1, 2>>} ELSE {<<1, 1>>}

\* the calls made: <<model_id, user, sponsored_allowance_name>>
RoundCalls ==
    {<<m, "u1", None>> : m \in {"m1", "m3", "m6"}} \cup {<<"m1", "u1", "x">>}

\* most rows of the log under calls of fractional cost: a row of each of
\* the three models fits
RoundLog == MaxLog + 1

FractionInit ==
    /\ model_pricing = RoundCatalog
    /\ base_setting = [base_credit_allowance |-> <<3>>]
    /\ credit_group = << [id |-> "g1", max_credit |-> 3], [id |-> "g2", max_credit |-> 1] >>
    /\ credit_group_user = {[credit_group_id |-> "g1", user_id |-> "u1"]}
    /\ sponsored_allowance = {AllowanceX, AllowanceE}
    /\ sponsored_allowance_base_models = {BaseModelRow("idX", "m1"), BaseModelRow("idE", "m1")}
    /\ row_order = <<"idX", "idE">>
    /\ group_order \in GroupOrders(model_pricing)
    /\ token_usage_log = << >>
    /\ today = 1
    /\ ret = [op |-> "none", err |-> "none"]
    /\ InitReq
    /\ InitUtils

RoundInit == FractionInit

\* a caller logs usage directly on the tracker, the log holding fewer than
\* `most` rows
LogTokenUsageBelow(most, model_id, user, prompt_tokens, response_tokens, name) ==
    /\ Len(token_usage_log) < most
    /\ log_token_usage(LedgerProvider, model_id, user, prompt_tokens,
                       response_tokens, name)
    /\ UNCHANGED <<tables, today, req, utils>>

RoundLogTokenUsage(model_id, user, prompt_tokens, response_tokens, name) ==
    LogTokenUsageBelow(RoundLog, model_id, user, prompt_tokens, response_tokens, name)

RoundNext ==
    \E c \in RoundCalls :
        \E t \in RoundTokens(c[1]) : RoundLogTokenUsage(c[1], c[2], t[1], t[2], c[3])

RoundSpec == RoundInit /\ [][RoundNext]_vars

-----------------------------------------------------------------------------
(* The ledger of fractional costs under several scopes: ScopeSpec *)

\* the calls made, each of one prompt and one response token:
\* <<model_id, user, sponsored_allowance_name>>
ScopeCalls ==
    {<<m, "u1", "x">> : m \in {"m1", "m3", "m6"}}
        \cup {<<"m1", "u1", None>>, <<"m1", "u2", "x">>}

\* most rows of the log: a row of each of the three models in one scope and
\* a row of another scope
ScopeLog == MaxLog + 2

ScopeLogTokenUsage(model_id, user, name) ==
    LogTokenUsageBelow(ScopeLog, model_id, user, 1, 1, name)

ScopeNext == \E c \in ScopeCalls : ScopeLogTokenUsage(c[1], c[2], c[3])

ScopeSpec == FractionInit /\ [][ScopeNext]_vars

-----------------------------------------------------------------------------
(* The ledger of fractional costs over the months: MonthSpec *)

\* the calls made, all of "m3":
\* <<user, sponsored_allowance_name, prompt_tokens, response_tokens>>; nine
\* response tokens cost 3.0 credits, two prompt and seven response tokens
\* 2.9999999999999996
MonthCalls ==
    { <<"u2", None, 0, 9>>, <<"u2", None, 2, 7>>, <<"u1", "x", 0, 9>> }

MonthLogTokenUsage(user, name, prompt_tokens, response_tokens) ==
    LogTokenUsageBelow(MaxLog, "m3", user, prompt_tokens, response_tokens, name)

MonthNext ==
    \/ \E c \in MonthCalls : MonthLogTokenUsage(c[1], c[2], c[3], c[4])
    \/ NextDay

MonthSpec == FractionInit /\ [][MonthNext]_vars

-----------------------------------------------------------------------------
(* The ledger under calls of models that are not paid: FreeSpec *)

\* ModelPricing rows: the paid "m1", "free" with costs of zero, and "promo"
\* with an input cost below zero, a rebate of one credit per prompt token;
\* is_paid holds neither "free" nor "promo" to be paid.  The id "nocat" has
\* no row.
FreeCatalog ==
    << [id |-> "m1", provider |-> "openai",
        input_cost_credits |-> 1, per_input_tokens |-> 2,
        output_cost_credits |-> 2, per_output_tokens |-> 1],
       [id |-> "free", provider |-> "openai",
        input_cost_credits |-> 0, per_input_tokens |-> 1,
        output_cost_credits |-> 0, per_output_tokens |-> 1],
       [id |-> "promo", provider |-> "openai",
        input_cost_credits |-> -1, per_input_tokens |-> 1,
        output_cost_credits |-> 0, per_output_tokens |-> 1] >>

\* the calls made, each of two prompt tokens and one response token:
\* <<model_id, user, sponsored_allowance_name>>
FreeCalls ==
    {<<m, u, n>> : m \in {"free", "promo", "nocat"}, u \in Users, n \in {None, "x"}}
        \cup {<<"m1", "u1", None>>}

FreeInit ==
    /\ model_pricing = FreeCatalog
    /\ base_setting = [base_credit_allowance |-> <<3>>]
    /\ credit_group = << [id |-> "g1", max_credit |-> 3], [id |-> "g2", max_credit |-> 1] >>
    /\ credit_group_user = {[credit_group_id |-> "g1", user_id |-> "u1"]}
    /\ sponsored_allowance = {AllowanceX, AllowanceE}
    /\ sponsored_allowance_base_models = {BaseModelRow("idX", "m1"), BaseModelRow("idE", "m1")}
    /\ row_order = <<"idX", "idE">>
    /\ group_order \in GroupOrders(model_pricing)
    /\ token_usage_log = << >>
    /\ today = 1
    /\ ret = [op |-> "none", err |-> "none"]
    /\ InitReq
    /\ InitUtils

FreeLogTokenUsage(model_id, user, name) ==
    LogTokenUsageBelow(MaxLog, model_id, user, 2, 1, name)

FreeNext == \E c \in FreeCalls : FreeLogTokenUsage(c[1], c[2], c[3])

FreeSpec == FreeInit /\ [][FreeNext]_vars

-----------------------------------------------------------------------------
(* The pipe under concurrent calls: PipeSpec *)

PipeUser == "u2"
\* the paid model, the free model, and an id the catalog does not hold
PipeModels == {"m1", "free", "nocat"}
PipeNames == {None, "x", "zz"}
\* the usage the provider reports for one call
PipeTokens == <<2, 1>>

\* pipe's try/except around _check_limits: where the call goes next
AfterCheck_Continue(r, stream) ==
    IF r.ok \/ r.err \in LimitErrors
    THEN (IF stream THEN "gen" ELSE "request")
    ELSE "done"

AfterCheck(r, stream) ==
    IF r.ok THEN (IF stream THEN "gen" ELSE "request") ELSE "done"

\* the store as a call read it when the log held its first n rows: only
\* the log changes while pipe calls run, and it changes by appends
StoreAt(n) == [DB EXCEPT !.token_usage_log = SubSeq(token_usage_log, 1, n)]

\* the pipes whose _payload calls pop_system_message
PopProviders == {"anthropic", "google_genai"}

\* pipe after the check: on the way to the provider _payload is built
Payload(provider, r) ==
    IF r.ok /\ provider \in PopProviders
    THEN /\ popped' = [called |-> TRUE,
                       system_message |-> pop_system_message(messages).system_message,
                       remaining |-> pop_system_message(messages).remaining]
         /\ UNCHANGED messages
    ELSE UNCHANGED utils

\* pipe's try/except around _check_limits: the limit message, the
\* exception of the check, or the way on to the provider
Checked(q, r) ==
    [q EXCEPT !.pc = AfterCheck(r, q.stream),
              !.check = IF r.ok THEN "allowed"
                        ELSE IF r.err \in LimitErrors THEN "denied"
                        ELSE "raised",
              !.result = IF r.ok THEN "none"
                         ELSE IF r.err \in LimitErrors THEN "limit_message"
                         ELSE "raised"]

\* the model_id and sponsored_allowance_name pipe passes to _check_limits
CheckArgs(model_id, name) == [model_id |-> model_id, name |-> name]

\* pipe(body, __user__, __metadata__) of a pipe of the given provider, up to
\* the call of stream_response or non_stream_response, or, when
\* _check_limits goes on to _remaining_sponsored_credits, up to the return of
\* _remaining_user_credits: that read and the one to come are transactions
\* of their own.  Calls arrive in the order of their numbers.
PipeCallOf(provider, i, model_id, name, stream) ==
    /\ req[i].pc = "idle"
    /\ IF i = 1 THEN TRUE ELSE req[i - 1].pc # "idle"
    /\ LET q == [req[i] EXCEPT !.provider = provider, !.user = PipeUser,
                               !.model_id = model_id, !.name = name,
                               !.stream = stream, !.seen = Len(token_usage_log),
                               !.gate = <<CheckArgs(model_id, name)>>]
           checked(r) ==
               /\ req' = [req EXCEPT ![i] = Checked(q, r)]
               /\ Payload(provider, r)
       IN  IF ReadsTotal(DB, model_id, PipeUser, name)
           THEN /\ req' = [req EXCEPT ![i] = [q EXCEPT !.pc = "check"]]
                /\ UNCHANGED utils
           ELSE checked(check_limits_at(DB, DB, model_id, PipeUser, name))
    /\ UNCHANGED <<tables, token_usage_log, today, ret>>

\* the rest of _check_limits: _remaining_sponsored_credits reads the store
\* as it is now, the limits are compared, and pipe goes on
CheckTotal(i) ==
    /\ req[i].pc = "check"
    /\ LET checked(r) ==
               /\ req' = [req EXCEPT ![i] = Checked(req[i], r)]
               /\ Payload(req[i].provider, r)
       IN  checked(check_limits_at(StoreAt(req[i].seen), DB, req[i].model_id,
                                   req[i].user, req[i].name))
    /\ UNCHANGED <<tables, token_usage_log, today, ret>>

\* the pipe PipeSpec and CatalogSpec run
PipeProvider == "anthropic"

PipeCall(i, model_id, name, stream) ==
    PipeCallOf(PipeProvider, i, model_id, name, stream)

\* log_token_usage called for the personal scope whatever was checked
LogArgs_Personal(r) == [model_id |-> r.model_id, name |-> None]

\* the model_id and sponsored_allowance_name stream_response and
\* non_stream_response pass to log_token_usage: the ones pipe passed to
\* _check_limits and to them
LogArgs(r) == [model_id |-> r.model_id, name |-> r.name]

\* the log_token_usage of call i with the token counts given, and what the
\* call hands back after it
LogTokens(i, prompt_tokens, response_tokens) ==
    /\ log_token_usage(req[i].provider, LogArgs(req[i]).model_id,
                       req[i].user, prompt_tokens, response_tokens,
                       LogArgs(req[i]).name)
    /\ req' = [req EXCEPT ![i] =
                  [@ EXCEPT !.pc = "done", !.completed = TRUE,
                            !.prompt_tokens = prompt_tokens,
                            !.response_tokens = response_tokens,
                            !.billed = <<LogArgs(req[i])>>,
                            !.rows = IF ResolveAllowance(LogArgs(req[i]).name).ok
                                     THEN @ + 1 ELSE @,
                            !.result = IF ResolveAllowance(LogArgs(req[i]).name).ok
                                       THEN "response" ELSE "error"]]
    /\ UNCHANGED <<tables, today, utils>>

\* the log_token_usage of call i for the usage the provider reports
LogCall(i) == LogTokens(i, PipeTokens[1], PipeTokens[2])

\* non_stream_response: _make_non_stream_request is called; the provider
\* answers, or the request fails and the except clause returns the error text
NonStreamRequest(i, answered) ==
    /\ req[i].pc = "request"
    /\ req' = [req EXCEPT ![i] =
                  IF answered
                  THEN [@ EXCEPT !.pc = "log", !.dispatched = TRUE]
                  ELSE [@ EXCEPT !.pc = "done", !.dispatched = TRUE,
                                 !.result = "error"]]
    /\ UNCHANGED <<tables, token_usage_log, today, ret, utils>>

\* non_stream_response: log_token_usage after the response, then return
NonStreamLog(i) ==
    /\ req[i].pc = "log"
    /\ LogCall(i)

\* stream_response, first next(): the provider request is issued; it opens
\* the stream, or fails and the except clause yields the error text
StreamStart(i, opened) ==
    /\ req[i].pc = "gen"
    /\ req' = [req EXCEPT ![i] =
                  IF opened
                  THEN [@ EXCEPT !.pc = "streaming", !.dispatched = TRUE]
                  ELSE [@ EXCEPT !.pc = "done", !.dispatched = TRUE,
                                 !.result = "error"]]
    /\ UNCHANGED <<tables, token_usage_log, today, ret, utils>>

\* stream_response: the provider stream raises after any number of chunks;
\* the except clause yields the error text and nothing is logged
StreamRaise(i) ==
    /\ req[i].pc = "streaming"
    /\ req' = [req EXCEPT ![i].pc = "done", ![i].result = "error"]
    /\ UNCHANGED <<tables, token_usage_log, today, ret, utils>>

\* the consumer drops the generator before its end: GeneratorExit is no
\* Exception, the generator is closed and nothing is logged
StreamAbandon(i) ==
    /\ req[i].pc \in {"gen", "streaming"}
    /\ req' = [req EXCEPT ![i].pc = "done", ![i].result = "abandoned"]
    /\ UNCHANGED <<tables, token_usage_log, today, ret, utils>>

\* stream_response: the provider stream ends after any number of chunks and
\* log_token_usage runs
StreamExhaust(i) ==
    /\ req[i].pc = "streaming"
    /\ LogCall(i)

PipeNext ==
    \E i \in 1..NReq :
        \/ \E m \in PipeModels, n \in PipeNames, st \in BOOLEAN : PipeCall(i, m, n, st)
        \/ CheckTotal(i)
        \/ \E answered \in BOOLEAN : NonStreamRequest(i, answered)
        \/ NonStreamLog(i)
        \/ \E opened \in BOOLEAN : StreamStart(i, opened)
        \/ StreamRaise(i)
        \/ StreamAbandon(i)
        \/ StreamExhaust(i)

PipeSpec == Init /\ [][PipeNext]_vars

-----------------------------------------------------------------------------
(* The pipe under calls one at a time, streams event by event: SerialSpec *)

\* __metadata__["model"]: its id, and the base_model_id of a workspace
\* model (None for a model used directly)
Direct(id) == [id |-> id, base_model_id |-> None]
Workspace(id, base_model_id) == [id |-> id, base_model_id |-> base_model_id]

\* s.find(sub): the first position at which sub stands in s, 0 when it
\* stands nowhere
Find(s, sub) ==
    LET at == {k \in 1..(Len(s) - Len(sub) + 1) :
                  SubSeq(s, k, k + Len(sub) - 1) = sub}
    IN  IF at = {} THEN 0 ELSE CHOOSE k \in at : \A j \in at : k <= j

\* id.split("---")[0]: the id up to its first "---", the whole id without one
SplitId(id) ==
    IF Find(id, "---") = 0 THEN id ELSE SubSeq(id, 1, Find(id, "---") - 1)

\* pipe: the sponsored_allowance_name is what stands before the first "---"
\* of a workspace model's id, None without a "---" in it
PipeName(model) ==
    IF model.base_model_id # None /\ Find(model.id, "---") > 0
    THEN SplitId(model.id)
    ELSE None

\* BaseTrackedPipe.MODEL_ID_PREFIX
MODEL_ID_PREFIX == "."

\* id.replace(self.provider + MODEL_ID_PREFIX, "", 1): the first
\* "<provider>." of the pipe's own provider is taken out, wherever it stands
StripProvider(provider, id) ==
    LET old == provider \o MODEL_ID_PREFIX
        k == Find(id, old)
    IN  IF k = 0 THEN id
        ELSE SubSeq(id, 1, k - 1) \o SubSeq(id, k + Len(old), Len(id))

\* pipe: the model_id is the base model of a workspace model, the whole id
\* of a model used directly, without the prefix of the pipe's provider
PipeModelId(provider, model) ==
    StripProvider(provider,
                  IF model.base_model_id # None THEN model.base_model_id ELSE model.id)

\* ModelPricing rows: "m3", a credit per 3 tokens, prompt or response, and
\* "free"
SerialCatalog == <<RoundCatalog[2], Catalog[2]>>

\* the store of Init with these rows for its pricing table
SerialInit ==
    /\ model_pricing = SerialCatalog
    /\ base_setting = [base_credit_allowance |-> <<3>>]
    /\ credit_group = << [id |-> "g1", max_credit |-> 3], [id |-> "g2", max_credit |-> 1] >>
    /\ credit_group_user = {[credit_group_id |-> "g1", user_id |-> "u1"]}
    /\ sponsored_allowance = {AllowanceX, AllowanceE}
    /\ sponsored_allowance_base_models = {BaseModelRow("idX", "m3"), BaseModelRow("idE", "m3")}
    /\ row_order = <<"idX", "idE">>
    /\ group_order \in GroupOrders(model_pricing)
    /\ token_usage_log = << >>
    /\ today = 1
    /\ ret = [op |-> "none", err |-> "none"]
    /\ InitReq
    /\ InitUtils

\* the requests: <<provider of the pipe, __metadata__["model"]>>.  The
\* catalog's models used directly, under the prefix of the pipe's provider
\* and under that of another, and an id with "---" used directly; workspace
\* models named for the allowance "x", with more than one "---" and with a
\* base model under a prefix, for no allowance, for the allowance of the
\* empty name and for names no allowance has; a model of the Azure pipe
SerialRequests ==
    { <<"anthropic", Direct("m3")>>,
      <<"google_genai", Direct("free")>>,
      <<"anthropic", Direct("anthropic.m3")>>,
      <<"google_genai", Direct("anthropic.m3")>>,
      <<"anthropic", Direct("x---m3")>>,
      <<"anthropic", Workspace("x---ws", "m3")>>,
      <<"google_genai", Workspace("x---a---b", "eu.google_genai.m3")>>,
      <<"google_genai", Workspace("x---ws", "google_genai.m3")>>,
      <<"anthropic", Workspace("ws", "m3")>>,
      <<"anthropic", Workspace("---ws", "m3")>>,
      <<"google_genai", Workspace("y---ws", "m3")>>,
      <<"anthropic", Workspace("zz---ws", "free")>>,
      <<"azure_openai", Direct("azure_openai.m3")>> }

\* the events of a provider stream, in the order generate_stream reads
\* them.  Anthropic: message_start carries the input tokens, the text deltas
\* follow and are yielded, message_delta carries the output tokens, and
\* message_stop, or the end of the lines, ends the loop.
AnthropicStream ==
    <<"message_start">> \o [k \in 1..MaxChunks |-> "text"]
        \o <<"message_delta", "message_stop">>

\* Gemini: the chunks are yielded; when the response ends, the usage
\* metadata of the last chunk is read after the loop
GoogleStream == [k \in 1..MaxChunks |-> "text"] \o <<"usage_metadata">>

\* Azure OpenAI: every line is yielded as it stands, the content chunks,
\* the chunk that carries the usage, whose two counts are written before it
\* is yielded, and "[DONE]"; the end of the lines ends the loop
AzureStream ==
    [k \in 1..MaxChunks |-> "text"] \o <<"usage", "done", "end_of_lines">>

\* the stream _make_stream_request of the pipe of a provider reads
StreamOf(provider) ==
    CASE provider = "anthropic" -> AnthropicStream
      [] provider = "google_genai" -> GoogleStream
      [] provider = "azure_openai" -> AzureStream

\* the events generate_stream yields to stream_response, which yields them
\* on to the consumer
Yielded == {"text", "usage", "done"}

\* the generator of a call stands at a yield, the consumer holding the chunk:
\* the event taken last was a yielded one.  After any other event the
\* consumer is inside next() and the generator is running.
AtYield(q) ==
    LET s == StreamOf(q.provider)
        k == Len(s) - Len(q.events)
    IN  k > 0 /\ s[k] \in Yielded

\* a call starts when no other call is between its check and its end
SerialCall(i, provider, model, stream) ==
    /\ \A j \in 1..NReq : j # i => req[j].pc \in {"idle", "done"}
    /\ PipeCallOf(provider, i, PipeModelId(provider, model), PipeName(model), stream)

\* stream_response, first next(): _make_stream_request builds TokenCount()
\* and the generator, and the provider request is issued; it opens the
\* stream, or fails and the except clause yields the error text
StreamOpen(i, opened) ==
    /\ req[i].pc = "gen"
    /\ req' = [req EXCEPT ![i] =
                  IF opened
                  THEN [@ EXCEPT !.pc = "streaming", !.dispatched = TRUE,
                                 !.prompt_tokens = 0, !.response_tokens = 0,
                                 !.events = StreamOf(req[i].provider), !.yielded = 0]
                  ELSE [@ EXCEPT !.pc = "done", !.dispatched = TRUE,
                                 !.result = "error"]]
    /\ UNCHANGED <<tables, token_usage_log, today, ret, utils>>

\* the generator and its TokenCount are gone with the frame of
\* stream_response
StreamDropped(q, result) ==
    [q EXCEPT !.pc = "done", !.result = result, !.events = << >>, !.yielded = 0,
              !.prompt_tokens = 0, !.response_tokens = 0]

\* the provider stream raises where its next event, message_stop or the end
\* of the stream among them, is read: the except clause of stream_response
\* yields the error text and nothing is logged
StreamFail(i) ==
    /\ req[i].pc = "streaming"
    /\ req[i].events # << >>
    /\ req' = [req EXCEPT ![i] = StreamDropped(@, "error")]
    /\ UNCHANGED <<tables, token_usage_log, today, ret, utils>>

\* the consumer drops the generator, before its first next() or while it
\* stands at one of its yields: GeneratorExit is no Exception, the generator
\* is closed and nothing is logged.  Inside next() the generator is running
\* and cannot be closed.
StreamDrop(i) ==
    /\ \/ req[i].pc = "gen"
       \/ req[i].pc = "streaming" /\ AtYield(req[i])
    /\ req' = [req EXCEPT ![i] = StreamDropped(@, "abandoned")]
    /\ UNCHANGED <<tables, token_usage_log, today, ret, utils>>

\* generate_stream takes the next provider event: a usage event is written
\* to the TokenCount stream_response holds; a text, and any line of the
\* Azure stream, is yielded, and stream_response yields it on; message_stop
\* and the end of the lines end the loop
StreamEvent(i) ==
    /\ req[i].pc = "streaming"
    /\ req[i].events # << >>
    /\ LET e == Head(req[i].events)
       IN  req' = [req EXCEPT ![i] =
                      [@ EXCEPT !.events = Tail(@),
                                !.yielded = IF e \in Yielded THEN @ + 1 ELSE @,
                                !.prompt_tokens =
                                    IF e \in {"message_start", "usage_metadata", "usage"}
                                    THEN PipeTokens[1] ELSE @,
                                !.response_tokens =
                                    IF e \in {"message_delta", "usage_metadata", "usage"}
                                    THEN PipeTokens[2] ELSE @]]
    /\ UNCHANGED <<tables, token_usage_log, today, ret, utils>>

\* the token counts as they were when the stream was opened
TokensAtLog_AtOpen(r) == <<0, 0>>

\* stream_response reads tokens.prompt_tokens and tokens.response_tokens
\* when it calls log_token_usage
TokensAtLog(r) == <<r.prompt_tokens, r.response_tokens>>

\* the generator is exhausted: the loop of stream_response ends and
\* log_token_usage runs
StreamEnd(i) ==
    /\ req[i].pc = "streaming"
    /\ req[i].events = << >>
    /\ LogTokens(i, TokensAtLog(req[i])[1], TokensAtLog(req[i])[2])

SerialNext ==
    \E i \in 1..NReq :
        \/ \E c \in SerialRequests, st \in BOOLEAN : SerialCall(i, c[1], c[2], st)
        \/ CheckTotal(i)
        \/ \E answered \in BOOLEAN : NonStreamRequest(i, answered)
        \/ NonStreamLog(i)
        \/ \E opened \in BOOLEAN : StreamOpen(i, opened)
        \/ StreamEvent(i)
        \/ StreamFail(i)
        \/ StreamDrop(i)
        \/ StreamEnd(i)

SerialSpec == SerialInit /\ [][SerialNext]_vars

-----------------------------------------------------------------------------
(* The pipe under calls one at a time of a model of fractional cost: GateSpec *)

\* the names the calls carry
GateScopes == {None, "x"}

\* the usage the provider reports for a call of "m3",
\* <<prompt_tokens, response_tokens>>: nine tokens, three credits
GateTokens == {<<2, 7>>, <<0, 9>>}

\* a call of "m3" without a stream; it starts when no other call is between
\* its check and its end
GateCall(i, name) ==
    /\ \A j \in 1..NReq : j # i => req[j].pc \in {"idle", "done"}
    /\ PipeCallOf(PipeProvider, i, "m3", name, FALSE)

\* non_stream_response: log_token_usage for the usage of the response
GateLog(i) ==
    /\ req[i].pc = "log"
    /\ \E t \in GateTokens : LogTokens(i, t[1], t[2])

GateNext ==
    \E i \in 1..NReq :
        \/ \E n \in GateScopes : GateCall(i, n)
        \/ CheckTotal(i)
        \/ \E answered \in BOOLEAN : NonStreamRequest(i, answered)
        \/ GateLog(i)

GateSpec == FractionInit /\ [][GateNext]_vars

-----------------------------------------------------------------------------
(* The sessions of a pipe call, one step for each that opens or closes:
   SessionSpec *)

\* `Session(engine)` constructed and never closed
With_Leak(body) == <<"open">> \o body

\* `with Session(self.db_engine) as session:` around a body: the session is
\* opened, the body runs, and the session is closed when the block is left,
\* by its end, by a return or by an exception
With(body) == <<"open">> \o body \o <<"close">>

\* get_models: one block, left before the schemas are built
GetModelsSessions == With(<< >>)

\* get_sponsored_allowance: one block; the KeyError is raised inside it
GetSponsoredAllowanceSessions == With(<< >>)

\* max_credits: the RuntimeError for a name and an id together is raised
\* before the block
MaxCreditsSessions(sponsored_allowance_name, sponsored_allowance_id) ==
    IF sponsored_allowance_name # None /\ sponsored_allowance_id # None
    THEN << >>
    ELSE With(<< >>)

\* _remaining_user_credits: get_models is called inside the block, max_credits
\* after it
RemainingUserSessions(sponsored_allowance_id) ==
    With(GetModelsSessions) \o MaxCreditsSessions(None, sponsored_allowance_id)

\* _remaining_sponsored_credits: the whole body is one block; unpacking the
\* row of an id no allowance has raises before get_models
RemainingSponsoredSessions(db, sponsored_allowance_id) ==
    With(IF \E a \in db.sponsored_allowance : a.id = sponsored_allowance_id
         THEN GetModelsSessions
         ELSE << >>)

\* remaining_credits, up to its return or to the exception of a callee
RemainingCreditsSessions(db, user, sponsored_allowance_name) ==
    LET found == IF sponsored_allowance_name # None
                 THEN get_sponsored_allowance(db, sponsored_allowance_name)
                 ELSE Ok([id |-> None])
        lookup == IF sponsored_allowance_name # None
                  THEN GetSponsoredAllowanceSessions ELSE << >>
    IN  IF ~found.ok THEN lookup
        ELSE lookup \o RemainingUserSessions(found.val.id)
                 \o (IF /\ remaining_user_credits(db, user, found.val.id).ok
                        /\ Truthy(sponsored_allowance_name)
                     THEN RemainingSponsoredSessions(db, found.val.id)
                     ELSE << >>)

\* _check_limits: is_paid calls get_models; a paid model goes on to
\* remaining_credits, and a monthly limit message to max_credits
CheckLimitsSessions(db, model_id, user, sponsored_allowance_name) ==
    LET paid == is_paid(db, model_id)
        rc == remaining_credits(db, user, sponsored_allowance_name)
    IN  IF ~paid.ok \/ ~paid.val THEN GetModelsSessions
        ELSE GetModelsSessions
                 \o RemainingCreditsSessions(db, user, sponsored_allowance_name)
                 \o (IF /\ rc.ok
                        /\ ~(rc.val.total # NoInt /\ Exhausted(rc.val.total[1]))
                        /\ Exhausted(rc.val.monthly)
                     THEN MaxCreditsSessions(sponsored_allowance_name, None)
                     ELSE << >>)

\* log_token_usage: one block around the lookup of the name, session.add and
\* session.commit; "commit" stands for the last two, "raise" for the KeyError
\* of the lookup passing through the block
LogTokenUsageSessions(db, sponsored_allowance_name) ==
    With(IF sponsored_allowance_name = None THEN <<"commit">>
         ELSE GetSponsoredAllowanceSessions
                  \o (IF get_sponsored_allowance(db, sponsored_allowance_name).ok
                      THEN <<"commit">> ELSE <<"raise">>))

\* the calls made, <<model_id, sponsored_allowance_name>>: the paid model
\* in the personal scope, under the allowance "x", under the allowance of
\* the empty name and under a name no allowance has, the free model, and an
\* id the catalog does not hold
SessionCalls ==
    { <<"m1", None>>, <<"m1", "x">>, <<"m1", "">>, <<"m1", "zz">>,
      <<"free", "x">>, <<"nocat", None>> }

\* pipe is called: _check_limits starts.  A call starts when no other call
\* is between its check and its end.
SessionCall(i, model_id, name, stream) ==
    /\ req[i].pc = "idle"
    /\ \A j \in 1..NReq : j # i => req[j].pc \in {"idle", "done"}
    /\ IF i = 1 THEN TRUE ELSE req[i - 1].pc # "idle"
    /\ req' = [req EXCEPT ![i] =
                  [@ EXCEPT !.provider = PipeProvider, !.user = PipeUser,
                            !.model_id = model_id, !.name = name,
                            !.stream = stream, !.seen = Len(token_usage_log),
                            !.gate = <<CheckArgs(model_id, name)>>,
                            !.pc = "checking",
                            !.script = CheckLimitsSessions(DB, model_id, PipeUser, name)]]
    /\ UNCHANGED <<tables, token_usage_log, today, ret, utils>>

\* a block of the call is entered or left
SessionStep(i) ==
    /\ req[i].pc \in {"checking", "logging"}
    /\ req[i].script # << >>
    /\ Head(req[i].script) \in {"open", "close"}
    /\ req' = [req EXCEPT ![i] =
                  [@ EXCEPT !.script = Tail(@),
                            !.opened = IF Head(req[i].script) = "open"
                                       THEN @ + 1 ELSE @,
                            !.sessions = IF Head(req[i].script) = "open"
                                         THEN @ + 1 ELSE @ - 1]]
    /\ UNCHANGED <<tables, token_usage_log, today, ret, utils>>

\* _check_limits returns or raises, and pipe goes on
SessionChecked(i) ==
    /\ req[i].pc = "checking"
    /\ req[i].script = << >>
    /\ LET checked(r) ==
               /\ req' = [req EXCEPT ![i] = Checked(req[i], r)]
               /\ Payload(req[i].provider, r)
       IN  checked(check_limits(DB, req[i].model_id, req[i].user, req[i].name))
    /\ UNCHANGED <<tables, token_usage_log, today, ret>>

\* the response has come, or the generator is exhausted: log_token_usage is
\* called with the usage read by then
SessionLog(i) ==
    /\ \/ req[i].pc = "log"
       \/ req[i].pc = "streaming" /\ req[i].events = << >>
    /\ LET t == IF req[i].stream THEN TokensAtLog(req[i]) ELSE PipeTokens
       IN  req' = [req EXCEPT ![i] =
                      [@ EXCEPT !.pc = "logging",
                                !.prompt_tokens = t[1], !.response_tokens = t[2],
                                !.billed = <<LogArgs(req[i])>>,
                                !.script = LogTokenUsageSessions(DB, LogArgs(req[i]).name)]]
    /\ UNCHANGED <<tables, token_usage_log, today, ret, utils>>

\* inside the block of log_token_usage: the row is added and committed, or
\* the KeyError of the lookup passes
SessionWrite(i) ==
    /\ req[i].pc = "logging"
    /\ req[i].script # << >>
    /\ Head(req[i].script) \in {"commit", "raise"}
    /\ log_token_usage(req[i].provider, req[i].billed[1].model_id, req[i].user,
                       req[i].prompt_tokens, req[i].response_tokens,
                       req[i].billed[1].name)
    /\ req' = [req EXCEPT ![i] =
                  [@ EXCEPT !.script = Tail(@),
                            !.rows = IF Head(req[i].script) = "commit" THEN @ + 1 ELSE @,
                            !.result = IF Head(req[i].script) = "commit"
                                       THEN "response" ELSE "error"]]
    /\ UNCHANGED <<tables, today, utils>>

\* log_token_usage has returned or raised, and the call ends
SessionLogged(i) ==
    /\ req[i].pc = "logging"
    /\ req[i].script = << >>
    /\ req' = [req EXCEPT ![i] = [@ EXCEPT !.pc = "done", !.completed = TRUE]]
    /\ UNCHANGED <<tables, token_usage_log, today, ret, utils>>

SessionNext ==
    \E i \in 1..NReq :
        \/ \E c \in SessionCalls, st \in BOOLEAN : SessionCall(i, c[1], c[2], st)
        \/ SessionStep(i)
        \/ SessionChecked(i)
        \/ \E answered \in BOOLEAN : NonStreamRequest(i, answered)
        \/ \E opened \in BOOLEAN : StreamOpen(i, opened)
        \/ StreamEvent(i)
        \/ StreamFail(i)
        \/ StreamDrop(i)
        \/ SessionLog(i)
        \/ SessionWrite(i)
        \/ SessionLogged(i)

SessionSpec == Init /\ [][SessionNext]_vars

-----------------------------------------------------------------------------
(* The ledger over the configurations of its tables: ConfigSpec *)

\* BaseSetting base_credit_allowance: the stored text (its digits) and the
\* integer it stands for
ConfigBases ==
    {[text |-> <<0>>, value |-> 0], [text |-> <<3>>, value |-> 3],
     [text |-> <<1, 0>>, value |-> 10]}

\* the CreditGroupUser rows a configuration may hold
ConfigMemberships ==
    {[credit_group_id |-> "g1", user_id |-> "u1"],
     [credit_group_id |-> "g2", user_id |-> "u1"],
     [credit_group_id |-> "g2", user_id |-> "u2"]}

\* monthly_credit_limit of the allowance "x": unset, or 3
ConfigMonthly == {NoInt, Some(3)}

ConfigInit ==
    /\ model_pricing = Catalog
    /\ \E b \in ConfigBases : base_setting = [base_credit_allowance |-> b.text]
    /\ credit_group = << [id |-> "g1", max_credit |-> 3], [id |-> "g2", max_credit |-> 1] >>
    /\ credit_group_user \in SUBSET ConfigMemberships
    /\ \E ml \in ConfigMonthly :
           sponsored_allowance = {[AllowanceX EXCEPT !.monthly_credit_limit = ml]}
    /\ sponsored_allowance_base_models = {BaseModelRow("idX", "m1")}
    /\ row_order = <<"idX">>
    /\ group_order \in GroupOrders(model_pricing)
    /\ token_usage_log = << >>
    /\ today = 1
    /\ ret = [op |-> "none", err |-> "none"]
    /\ InitReq
    /\ InitUtils

\* the calls made: <<model_id, user, sponsored_allowance_name>>
ConfigCalls == {<<"m1", "u1", None>>, <<"m1", "u1", "x">>, <<"m1", "u2", "x">>}

ConfigNext ==
    \E c \in ConfigCalls, t \in LedgerTokens :
        CallLogTokenUsage(c[1], c[2], t[1], t[2], c[3])

ConfigSpec == ConfigInit /\ [][ConfigNext]_vars

-----------------------------------------------------------------------------
(* The pipe over the catalogs of one model id: CatalogSpec *)

\* a ModelPricing row of the id "m1" with the given costs, per one token
CatalogRow(input_cost, output_cost) ==
    [id |-> "m1", provider |-> "openai",
     input_cost_credits |-> input_cost, per_input_tokens |-> 1,
     output_cost_credits |-> output_cost, per_output_tokens |-> 1]

CatalogCosts == {-1, 0, 1}

\* the catalogs: no row of "m1", one row with any costs, or two rows
CatalogChoices ==
    {<< >>}
        \cup {<<CatalogRow(a, b)>> : a \in CatalogCosts, b \in CatalogCosts}
        \cup {<<CatalogRow(a, a), CatalogRow(b, b)>> : a \in {0, 1}, b \in {0, 1}}

CatalogNames == {None, "zz"}

CatalogInit ==
    /\ model_pricing \in CatalogChoices
    /\ base_setting = [base_credit_allowance |-> <<3>>]
    /\ credit_group = << [id |-> "g1", max_credit |-> 3], [id |-> "g2", max_credit |-> 1] >>
    /\ credit_group_user = {[credit_group_id |-> "g1", user_id |-> "u1"]}
    /\ sponsored_allowance = {AllowanceX, AllowanceE}
    /\ sponsored_allowance_base_models = {BaseModelRow("idX", "m1"), BaseModelRow("idE", "m1")}
    /\ row_order = <<"idX", "idE">>
    /\ group_order \in GroupOrders(model_pricing)
    /\ token_usage_log = << >>
    /\ today = 1
    /\ ret = [op |-> "none", err |-> "none"]
    /\ InitReq
    /\ InitUtils

CatalogNext ==
    \E i \in 1..NReq :
        \/ \E n \in CatalogNames, st \in BOOLEAN : PipeCall(i, "m1", n, st)
        \/ \E answered \in BOOLEAN : NonStreamRequest(i, answered)
        \/ NonStreamLog(i)
        \/ \E opened \in BOOLEAN : StreamStart(i, opened)
        \/ StreamRaise(i)
        \/ StreamAbandon(i)
        \/ StreamExhaust(i)

CatalogSpec == CatalogInit /\ [][CatalogNext]_vars

-----------------------------------------------------------------------------
(* sponsored.py: create, update and delete of sponsored allowances *)

\* the values uuid.uuid4 draws from
UuidPool == <<"id1", "id2", "id3", "id4">>

\* the ids some row of the store carries
UsedIds ==
    {a.id : a \in sponsored_allowance}
        \cup {j.sponsored_allowance_id : j \in sponsored_allowance_base_models}
        \cup {token_usage_log[i].sponsored_allowance_id : i \in DOMAIN token_usage_log}

\* uuid.uuid4(): an id that no row carries
uuid4 ==
    UuidPool[CHOOSE k \in DOMAIN UuidPool :
                /\ UuidPool[k] \notin UsedIds
                /\ \A j \in 1..(k - 1) : UuidPool[j] \in UsedIds]

\* server_default CURRENT_TIMESTAMP of the column creation_date: the date of
\* the database's clock, a UTC time, when the row is inserted.  It is the
\* date of the process's clock, a local time, or the day before or after it.
CURRENT_TIMESTAMP == {today - 1, today, today + 1}

\* create_sponsored_allowance adding the row without its associations
create_sponsored_allowance_NoModels(sponsor_id, name, models, total_credit_limit, monthly_credit_limit) ==
    /\ \E now \in CURRENT_TIMESTAMP :
           sponsored_allowance' =
               sponsored_allowance \cup
                   {[id |-> uuid4, name |-> name, sponsor_id |-> sponsor_id,
                     total_credit_limit |-> IF total_credit_limit = NoInt THEN 0 ELSE total_credit_limit[1],
                     monthly_credit_limit |-> monthly_credit_limit,
                     creation_date |-> now]}
    /\ row_order' = Append(row_order, uuid4)
    /\ UNCHANGED sponsored_allowance_base_models
    /\ ret' = [op |-> "create_sponsored_allowance", err |-> "none"]

\* create_sponsored_allowance(sponsor_id, name, models, total_credit_limit,
\* monthly_credit_limit): the row and its join rows are added and committed,
\* the database filling in creation_date; a total_credit_limit of None
\* violates NOT NULL at the commit
create_sponsored_allowance(sponsor_id, name, models, total_credit_limit, monthly_credit_limit) ==
    IF total_credit_limit = NoInt
    THEN /\ ret' = [op |-> "create_sponsored_allowance", err |-> "IntegrityError"]
         /\ UNCHANGED <<sponsored_allowance, sponsored_allowance_base_models, row_order>>
    ELSE LET id == uuid4
         IN  /\ \E now \in CURRENT_TIMESTAMP :
                    sponsored_allowance' =
                        sponsored_allowance \cup
                            {[id |-> id, name |-> name, sponsor_id |-> sponsor_id,
                              total_credit_limit |-> total_credit_limit[1],
                              monthly_credit_limit |-> monthly_credit_limit,
                              creation_date |-> now]}
             /\ row_order' = Append(row_order, id)
             /\ sponsored_allowance_base_models' =
                    sponsored_allowance_base_models \cup {BaseModelRow(id, m) : m \in models}
             /\ ret' = [op |-> "create_sponsored_allowance", err |-> "none"]

\* the query of update and delete without its filter
SelectAllowance_Unfiltered(allowance_id, name) == sponsored_allowance

\* the rows the query of update and delete filters: by id when an id is
\* given, else by name
SelectAllowance(allowance_id, name) ==
    IF allowance_id # None
    THEN {a \in sponsored_allowance : a.id = allowance_id}
    ELSE {a \in sponsored_allowance : a.name = name}

\* delete_sponsored_allowance keeping the join rows
DeleteJoinRows_Keep(id) == sponsored_allowance_base_models

\* the join table after the bulk delete of the rows of one allowance
DeleteJoinRows(id) ==
    {j \in sponsored_allowance_base_models : j.sponsored_allowance_id # id}

\* update_sponsored_allowance writing every field, supplied or not
UpdatedRow_Overwrite(a, new_name, sponsor_id, total_credit_limit, monthly_credit_limit) ==
    [a EXCEPT !.name = new_name,
              !.sponsor_id = sponsor_id,
              !.total_credit_limit = IF total_credit_limit # NoInt THEN total_credit_limit[1] ELSE 0,
              !.monthly_credit_limit = monthly_credit_limit]

\* the row after the assignments of update_sponsored_allowance
UpdatedRow(a, new_name, sponsor_id, total_credit_limit, monthly_credit_limit) ==
    [a EXCEPT !.name = IF new_name # None THEN new_name ELSE @,
              !.sponsor_id = IF sponsor_id # None THEN sponsor_id ELSE @,
              !.total_credit_limit = IF total_credit_limit # NoInt THEN total_credit_limit[1] ELSE @,
              !.monthly_credit_limit = IF monthly_credit_limit # NoInt THEN monthly_credit_limit ELSE @]

\* update_sponsored_allowance(allowance_id, name, new_name, sponsor_id,
\* models, total_credit_limit, monthly_credit_limit); models is an Optional
\* set: << >> for None, <<S>> for the models S
update_sponsored_allowance(allowance_id, name, new_name, sponsor_id, models, total_credit_limit, monthly_credit_limit) ==
    LET hits == SelectAllowance(allowance_id, name)
    IN  IF allowance_id = None /\ name = None
        THEN /\ ret' = [op |-> "update_sponsored_allowance", err |-> "ValueError"]
             /\ UNCHANGED <<sponsored_allowance, sponsored_allowance_base_models, row_order>>
        ELSE IF hits = {}
        THEN /\ ret' = [op |-> "update_sponsored_allowance", err |-> "ValueError"]
             /\ UNCHANGED <<sponsored_allowance, sponsored_allowance_base_models, row_order>>
        ELSE /\ ret' = [op |-> "update_sponsored_allowance", err |-> "none"]
             /\ LET a == FirstRow(DB, hits)
                IN  /\ UNCHANGED row_order
                    /\ sponsored_allowance' =
                           (sponsored_allowance \ {a})
                               \cup {UpdatedRow(a, new_name, sponsor_id,
                                                total_credit_limit, monthly_credit_limit)}
                    /\ sponsored_allowance_base_models' =
                           IF models # NoInt
                           THEN DeleteJoinRows(a.id)
                                    \cup {BaseModelRow(a.id, m) : m \in models[1]}
                           ELSE sponsored_allowance_base_models

\* delete_sponsored_allowance(allowance_id, name): the join rows of the row
\* found are deleted, then the row, and both are committed together
delete_sponsored_allowance(allowance_id, name) ==
    LET hits == SelectAllowance(allowance_id, name)
    IN  IF allowance_id = None /\ name = None
        THEN /\ ret' = [op |-> "delete_sponsored_allowance", err |-> "ValueError"]
             /\ UNCHANGED <<sponsored_allowance, sponsored_allowance_base_models, row_order>>
        ELSE IF hits = {}
        THEN /\ ret' = [op |-> "delete_sponsored_allowance", err |-> "ValueError"]
             /\ UNCHANGED <<sponsored_allowance, sponsored_allowance_base_models, row_order>>
        ELSE /\ ret' = [op |-> "delete_sponsored_allowance", err |-> "none"]
             /\ LET a == FirstRow(DB, hits)
                IN  /\ sponsored_allowance_base_models' = DeleteJoinRows(a.id)
                    /\ sponsored_allowance' = sponsored_allowance \ {a}
                    /\ row_order' = SelectSeq(row_order, LAMBDA id : id # a.id)

-----------------------------------------------------------------------------
(* The administrator and the readers of the store: AdminSpec *)

\* a database without allowances, one personal usage row logged
AdminInit ==
    /\ model_pricing = Catalog
    /\ base_setting = [base_credit_allowance |-> <<3>>]
    /\ credit_group = << [id |-> "g1", max_credit |-> 3], [id |-> "g2", max_credit |-> 1] >>
    /\ credit_group_user = {[credit_group_id |-> "g1", user_id |-> "u1"]}
    /\ sponsored_allowance = {}
    /\ sponsored_allowance_base_models = {}
    /\ row_order = << >>
    /\ group_order \in GroupOrders(model_pricing)
    /\ token_usage_log =
           << [provider |-> "openai", user_id |-> "u1", model_id |-> "m1",
               prompt_tokens |-> 2, response_tokens |-> 1,
               sponsored_allowance_id |-> None, log_date |-> 1] >>
    /\ today = 1
    /\ ret = [op |-> "none", err |-> "none"]
    /\ InitReq
    /\ InitUtils

\* <<sponsor_id, name, models, total_credit_limit, monthly_credit_limit>>
CreateCalls ==
    { <<"s1", "x", {"m1", "m2"}, Some(5), Some(3)>>,
      <<"s2", "x", {"m1"}, Some(7), NoInt>>,
      <<"s1", "y", {}, Some(0), Some(3)>>,
      <<"s1", "y", {"m2"}, NoInt, Some(3)>> }

\* <<allowance_id, name, new_name, sponsor_id, models, total_credit_limit,
\*   monthly_credit_limit>>
UpdateCalls ==
    { <<None, "x", None, None, Some({"m2"}), NoInt, NoInt>>,
      <<"id2", "x", "y", "s2", Some({}), Some(-1), Some(4)>>,
      <<None, None, "y", None, NoInt, NoInt, NoInt>>,
      <<None, "zz", None, "s2", NoInt, Some(9), NoInt>>,
      <<"id4", "x", None, None, Some({"m1"}), Some(9), NoInt>> }

\* <<allowance_id, name>>
DeleteCalls ==
    { <<None, "x">>, <<"id1", None>>, <<"id2", "x">>,
      <<None, None>>, <<None, "zz">>, <<"id4", "x">> }

CallCreate(c) ==
    /\ Cardinality(sponsored_allowance) < MaxAllowances
    /\ create_sponsored_allowance(c[1], c[2], c[3], c[4], c[5])
    /\ UNCHANGED <<model_pricing, base_setting, credit_group, credit_group_user,
                   group_order, token_usage_log, today, req, utils>>

CallUpdate(c) ==
    /\ update_sponsored_allowance(c[1], c[2], c[3], c[4], c[5], c[6], c[7])
    /\ UNCHANGED <<model_pricing, base_setting, credit_group, credit_group_user,
                   group_order, token_usage_log, today, req, utils>>

CallDelete(c) ==
    /\ delete_sponsored_allowance(c[1], c[2])
    /\ UNCHANGED <<model_pricing, base_setting, credit_group, credit_group_user,
                   group_order, token_usage_log, today, req, utils>>

AdminNext ==
    \/ \E c \in CreateCalls : CallCreate(c)
    \/ \E c \in UpdateCalls : CallUpdate(c)
    \/ \E c \in DeleteCalls : CallDelete(c)

AdminSpec == AdminInit /\ [][AdminNext]_vars

-----------------------------------------------------------------------------
(* utils.pop_system_message on the message lists of a request: UtilSpec *)

\* the lists of at most n messages
RECURSIVE MessageLists(_)
MessageLists(n) ==
    IF n = 0 THEN {<< >>}
    ELSE MessageLists(n - 1)
             \cup {Append(l, m) : l \in {x \in MessageLists(n - 1) : Len(x) = n - 1},
                                  m \in MessageKinds}

UtilInit ==
    /\ InitTables
    /\ token_usage_log = << >>
    /\ today = 1
    /\ ret = [op |-> "none", err |-> "none"]
    /\ InitReq
    /\ messages \in MessageLists(MaxMessages)
    /\ popped = [called |-> FALSE, system_message |-> << >>, remaining |-> << >>]

\* _payload hands body["messages"] to pop_system_message
CallPopSystemMessage ==
    /\ ~popped.called
    /\ LET r == pop_system_message(messages)
       IN  popped' = [called |-> TRUE, system_message |-> r.system_message,
                      remaining |-> r.remaining]
    /\ UNCHANGED <<tables, token_usage_log, today, ret, req, messages>>

UtilNext == CallPopSystemMessage

UtilSpec == UtilInit /\ [][UtilNext]_vars

-----------------------------------------------------------------------------
(* What a usage row is worth, row by row *)

\* the database and the clock after the step
DBNext ==
    [model_pricing |-> model_pricing', base_setting |-> base_setting',
     credit_group |-> credit_group', credit_group_user |-> credit_group_user',
     sponsored_allowance |-> sponsored_allowance',
     sponsored_allowance_base_models |-> sponsored_allowance_base_models',
     row_order |-> row_order', group_order |-> group_order',
     token_usage_log |-> token_usage_log', today |-> today']

\* exact rationals <<numerator, denominator>>: the credits of rows as the
\* claims state them, without rounding
Rat(n, d) == <<n, d>>
RatAdd(a, b) == <<a[1] * b[2] + b[1] * a[2], a[2] * b[2]>>
RatOfInt(k) == <<k, 1>>
RatSub(a, b) == <<a[1] * b[2] - b[1] * a[2], a[2] * b[2]>>

\* a rational truncated toward zero
Trunc(q) == IF q[1] >= 0 THEN q[1] \div q[2] ELSE -((-q[1]) \div q[2])

\* the credits of one TokenUsageLog row at the catalog's rates; a row whose
\* model has no catalog entry is worth nothing
RowCredits(row) ==
    IF \E k \in DOMAIN Catalog : Catalog[k].id = row.model_id
    THEN LET m == Catalog[CHOOSE k \in DOMAIN Catalog : Catalog[k].id = row.model_id]
         IN  RatAdd(Rat(m.input_cost_credits * row.prompt_tokens, m.per_input_tokens),
                    Rat(m.output_cost_credits * row.response_tokens, m.per_output_tokens))
    ELSE RatOfInt(0)

\* the credits of the rows of log at the positions S, added row by row
SumRowCredits(log, S) ==
    LET acc[i \in 0..Len(log)] ==
            IF i = 0 THEN RatOfInt(0)
            ELSE IF i \in S THEN RatAdd(acc[i - 1], RowCredits(log[i]))
            ELSE acc[i - 1]
    IN  acc[Len(log)]

\* the rows of a user in a scope dated in the month of db.today
RowsOfMonth(db, user, scope) ==
    {i \in DOMAIN db.token_usage_log :
        /\ db.token_usage_log[i].user_id = user
        /\ db.token_usage_log[i].sponsored_allowance_id = scope
        /\ MonthOf(db.token_usage_log[i].log_date) = MonthOf(db.today)}

\* the whole-credit cost of one call on a model of the catalog
CallCost(model_id, prompt_tokens, response_tokens) ==
    Trunc(RowCredits([model_id |-> model_id, prompt_tokens |-> prompt_tokens,
                      response_tokens |-> response_tokens]))

\* the tokens of the model in the rows of log at the positions S
TokensOf(log, S, model_id, field) ==
    LET acc[i \in 0..Len(log)] ==
            IF i = 0 THEN 0
            ELSE acc[i - 1] + (IF i \in S /\ log[i].model_id = model_id
                               THEN log[i][field] ELSE 0)
    IN  acc[Len(log)]

\* the credits of the rows of the log at the positions S: for every model
\* of the catalog its rates times the tokens of its rows, added over the
\* models in the order in which the database lists them, all of it in
\* floating point
FloatCredits(db, S) ==
    LET cat == db.model_pricing
        ids == db.group_order
        row(m) == cat[CHOOSE k \in DOMAIN cat :
                          /\ cat[k].id = m
                          /\ \A j \in 1..(k - 1) : cat[j].id # m]
        cost(r, m) ==
            FloatAdd(FloatMulInt(FloatDiv(r.input_cost_credits, r.per_input_tokens),
                                 TokensOf(db.token_usage_log, S, m, "prompt_tokens")),
                     FloatMulInt(FloatDiv(r.output_cost_credits, r.per_output_tokens),
                                 TokensOf(db.token_usage_log, S, m, "response_tokens")))
        acc[k \in 0..Len(ids)] ==
            IF k = 0 THEN FloatZero
            ELSE FloatAdd(acc[k - 1], cost(row(ids[k]), ids[k]))
    IN  acc[Len(ids)]

Monthly(db, user, name) == remaining_credits(db, user, name).val.monthly
Total(db, user, name) == remaining_credits(db, user, name).val.total

-----------------------------------------------------------------------------
(* C1 *)

\* the cost of one call at the rates of the catalog, an exact rational
ExactCost(db, model_id, prompt_tokens, response_tokens) ==
    LET m == ModelData(get_models(db, None), model_id)
    IN  RatAdd(Rat(m.input_cost_credits * prompt_tokens, m.per_input_tokens),
               Rat(m.output_cost_credits * response_tokens, m.per_output_tokens))

\* the same cost as the code computes it for a record of these tokens
FloatCost(db, model_id, prompt_tokens, response_tokens) ==
    ModelCost([model_id |-> model_id, prompt_tokens_sum |-> prompt_tokens,
               response_tokens_sum |-> response_tokens], get_models(db, None))

C1State(db) ==
    \A u \in Users :
        LET left == remaining_credits(db, u, None)
        IN  /\ left.ok
            /\ left.val.monthly =
                   max_credits(db, u, None, None).val[1]
                       - PyInt(FloatCredits(db, RowsOfMonth(db, u, None)))

\* a personal call of a paid model whose cost is a whole number of credits,
\* in exact arithmetic and as the float the code computes for it, lowers
\* the figure of its user by that number
C1Delta ==
    \A c \in RoundCalls : \A t \in RoundTokens(c[1]) :
        LET cost == ExactCost(DB, c[1], t[1], t[2])
        IN  (/\ c[3] = None
             /\ RoundLogTokenUsage(c[1], c[2], t[1], t[2], None)
             /\ is_paid(DB, c[1]).ok
             /\ is_paid(DB, c[1]).val
             /\ cost[1] % cost[2] = 0
             /\ FloatCost(DB, c[1], t[1], t[2]) = FloatOfInt(cost[1] \div cost[2]))
                => Monthly(DBNext, c[2], None) =
                       Monthly(DB, c[2], None) - (cost[1] \div cost[2])

\* C1: in every state reached by a step, remaining_credits(user)'s first
\* component is max_credits(user) minus the credits of the user's rows of
\* the personal scope dated in the current month; and a personal
\* log_token_usage of a paid model with an integer cost lowers it by exactly
\* the call's cost.
C1_PersonalRemaining == [][C1State(DBNext) /\ C1Delta]_vars

\* u1 has logged on m3 three response tokens, one credit, and then one prompt
\* and two response tokens, one credit again: one credit is spent, the second
\* call has not lowered the figure
C1_Witness ==
    /\ Len(token_usage_log) = 2
    /\ \A i \in 1..2 :
           /\ token_usage_log[i].user_id = "u1"
           /\ token_usage_log[i].sponsored_allowance_id = None
           /\ token_usage_log[i].model_id = "m3"
    /\ token_usage_log[1].prompt_tokens = 0 /\ token_usage_log[1].response_tokens = 3
    /\ token_usage_log[2].prompt_tokens = 1 /\ token_usage_log[2].response_tokens = 2
    /\ Monthly(DB, "u1", None) = max_credits(DB, "u1", None, None).val[1] - 1

-----------------------------------------------------------------------------
(* C2 *)

\* the allowance of a name
AllowanceNamed(db, name) == CHOOSE a \in db.sponsored_allowance : a.name = name

\* the rows of an allowance's scope dated from its creation date up to now
LifetimeRows(db, a) ==
    {i \in DOMAIN db.token_usage_log :
        /\ db.token_usage_log[i].sponsored_allowance_id = a.id
        /\ db.token_usage_log[i].log_date >= a.creation_date
        /\ db.token_usage_log[i].log_date <= db.today}

\* total_credit_limit minus the credits of the allowance's lifetime rows
SponsorTotalRemaining(db, name) ==
    LET a == AllowanceNamed(db, name)
    IN  Trunc(RatSub(RatOfInt(a.total_credit_limit),
                     SumRowCredits(db.token_usage_log, LifetimeRows(db, a))))

C2State(db) ==
    \A u \in Users : Total(db, u, "x") = Some(SponsorTotalRemaining(db, "x"))

C2Delta ==
    \A c \in LedgerCalls, t \in LedgerTokens :
        (c[3] = "x" /\ CallLogTokenUsage(c[1], c[2], t[1], t[2], "x"))
            => Total(DBNext, c[2], "x")[1] =
                   Total(DB, c[2], "x")[1] - CallCost(c[1], t[1], t[2])

\* C2: the second component of remaining_credits(user, "x") is the
\* allowance's total_credit_limit minus the credits of every row of its scope
\* logged by any user from its creation date up to now, and every
\* log_token_usage under "x" lowers it by the call's cost.
C2_SponsoredLifetime == [][C2State(DBNext) /\ C2Delta]_vars

\* a paid row was logged under "x" on a day after the allowance's creation
C2_Witness ==
    \E i \in DOMAIN token_usage_log :
        /\ token_usage_log[i].sponsored_allowance_id = "idX"
        /\ token_usage_log[i].model_id = "m1"
        /\ token_usage_log[i].log_date > AllowanceX.creation_date

-----------------------------------------------------------------------------
(* C3, C4, C5: the gate over the states of the ledger *)

\* the allowance names that resolve, and no name
GateNames == {None, "x", ""}

\* C3: for a paid model check_limits returns True exactly when
\* personal_remaining > 0 and, when a name is given, sponsor_total_remaining
\* > 0; otherwise it raises a limit-exceeded error.
C3_AllowedIff ==
    \A u \in Users, n \in GateNames :
        LET r == check_limits(DB, "m1", u, n)
        IN  /\ r.ok <=> /\ Monthly(DB, u, n) > 0
                        /\ n # None => SponsorTotalRemaining(DB, n) > 0
            /\ r.ok => r.val = TRUE
            /\ ~r.ok => r.err \in LimitErrors

\* the pool of "" is used up while u2 still has monthly credits under it
C3_Witness ==
    /\ SponsorTotalRemaining(DB, "") <= 0
    /\ Monthly(DB, "u2", "") > 0

\* C4: with a name, a total remaining <= 0 raises the total error whatever
\* the monthly remaining is, the monthly error is raised only with total
\* remaining > 0 and monthly remaining <= 0; without a name the total error
\* is never raised.
C4_TotalBeforeMonthly ==
    \A u \in Users, n \in GateNames :
        LET r == check_limits(DB, "m1", u, n)
        IN  /\ (n # None /\ SponsorTotalRemaining(DB, n) <= 0)
                   => r.err = "TotalTokenLimitExceededError"
            /\ (n # None /\ r.err = "MonthlyTokenLimitExceededError")
                   => (SponsorTotalRemaining(DB, n) > 0 /\ Monthly(DB, u, n) <= 0)
            /\ n = None => r.err # "TotalTokenLimitExceededError"

\* both the pool of "x" and u1's monthly credits under it are used up on the
\* allowance's creation day, and the total error is the one raised
C4_Witness ==
    /\ SponsorTotalRemaining(DB, "x") <= 0
    /\ Monthly(DB, "u1", "x") <= 0
    /\ check_limits(DB, "m1", "u1", "x").err = "TotalTokenLimitExceededError"

\* C5: check_limits on the free model returns True for every user and every
\* allowance name, in every state of the ledger.
C5_FreeAlwaysAllowed ==
    \A u \in Users, n \in LedgerNames :
        LET r == check_limits(DB, "free", u, n)
        IN  r.ok /\ r.val = TRUE

\* u1 has spent more than the monthly limit of "x" and the pool of "x" is
\* used up, so a paid model is refused, and the free model is allowed
C5_Witness ==
    /\ remaining_credits(DB, "u1", "x").ok
    /\ Monthly(DB, "u1", "x") < 0
    /\ Total(DB, "u1", "x")[1] < 0
    /\ ~check_limits(DB, "m1", "u1", "x").ok
    /\ check_limits(DB, "free", "u1", "x").ok

-----------------------------------------------------------------------------
(* C9 *)

C9Step(model_id, user, prompt_tokens, response_tokens, name) ==
    LET hits == {a \in sponsored_allowance : a.name = name}
    IN  IF name = None \/ hits # {}
        THEN /\ Len(token_usage_log') = Len(token_usage_log) + 1
             /\ \A i \in DOMAIN token_usage_log :
                    token_usage_log'[i] = token_usage_log[i]
             /\ LET row == token_usage_log'[Len(token_usage_log')]
                IN  /\ row.provider = LedgerProvider
                    /\ row.model_id = model_id
                    /\ row.user_id = user
                    /\ row.prompt_tokens = prompt_tokens
                    /\ row.response_tokens = response_tokens
                    /\ name = None => row.sponsored_allowance_id = None
                    /\ name # None => \E a \in hits : row.sponsored_allowance_id = a.id
             /\ ret'.err = "none"
        ELSE /\ token_usage_log' = token_usage_log
             /\ ret'.err = "KeyError"

\* C9: a log_token_usage that succeeds adds exactly one row carrying its
\* arguments and the id of the named allowance (null without a name), one
\* that fails adds none, and either way the earlier rows stay as they were.
C9_AtomicAppend ==
    [][\A c \in LedgerCalls, t \in LedgerTokens :
          CallLogTokenUsage(c[1], c[2], t[1], t[2], c[3])
              => C9Step(c[1], c[2], t[1], t[2], c[3])]_vars

\* a call under "x" added a row, and a call naming an allowance that does
\* not exist then failed
C9_Witness ==
    /\ Len(token_usage_log) = 1
    /\ token_usage_log[1].sponsored_allowance_id = "idX"
    /\ ret.err = "KeyError"

-----------------------------------------------------------------------------
(* C10 *)

\* C10: a log_token_usage under one scope (no name, or an allowance) leaves
\* both components of remaining_credits unchanged for every user under every
\* other scope, whatever the log already holds and in whatever order the
\* database lists the models.
C10_SeparateLedgers ==
    [][\A c \in ScopeCalls :
          ScopeLogTokenUsage(c[1], c[2], c[3])
              => \A v \in Users, k \in GateNames :
                    k # c[3] => remaining_credits(DBNext, v, k) = remaining_credits(DB, v, k)]_vars

\* u1 logged a call of each model under "x", four credits that the database's
\* order of the models adds up to 3.9999999999999996, and then a personal
\* call: the figures under "x" are those of three credits spent, as before
\* the personal call, and the personal figure is lowered by the personal call
C10_Witness ==
    /\ Len(token_usage_log) = 4
    /\ \A i \in 1..4 : token_usage_log[i].user_id = "u1"
    /\ {token_usage_log[i].model_id : i \in 1..3} = {"m1", "m3", "m6"}
    /\ \A i \in 1..3 : token_usage_log[i].sponsored_allowance_id = "idX"
    /\ token_usage_log[4].sponsored_allowance_id = None
    /\ group_order = <<"m1", "m6", "m3">>
    /\ Monthly(DB, "u1", None) = max_credits(DB, "u1", None, None).val[1] - 2
    /\ remaining_credits(DB, "u1", "x").val = [monthly |-> 0, total |-> Some(1)]
    /\ remaining_credits([DB EXCEPT !.group_order = <<"m1", "m3", "m6">>], "u1", "x").val
           = [monthly |-> -1, total |-> Some(1)]

-----------------------------------------------------------------------------
(* C6 *)

\* C6: the check reserves nothing: the steps of a pipe call's check leave
\* the usage log as it is, and every call of a paid model that is allowed
\* saw a monthly remainder above zero in the rows committed when it read the
\* user's spend, and a total remainder above zero or none in the rows
\* committed when it read the allowance's spend; an overspend comes only
\* from rows committed after those reads.
C6_SoftLimit ==
    [][\A i \in 1..NReq :
          (req[i].pc \in {"idle", "check"} /\ req'[i] # req[i])
              => /\ token_usage_log' = token_usage_log
                 /\ req[i].pc = "idle" => req'[i].seen = Len(token_usage_log)
                 /\ req[i].pc = "check" => req'[i].seen = req[i].seen
                 /\ (req'[i].check = "allowed" /\ req'[i].model_id = "m1")
                        => /\ Monthly(StoreAt(req'[i].seen), PipeUser, req'[i].name) > 0
                           /\ Total(DB, PipeUser, req'[i].name) # NoInt
                                  => Total(DB, PipeUser, req'[i].name)[1] > 0]_vars

\* two calls of u2 for the paid model under "x" were both allowed before any
\* row was committed, both logged, and the spend under "x" is now above both
\* the monthly limit and the total limit
C6_Witness ==
    /\ \A i \in 1..2 :
           /\ req[i].check = "allowed" /\ req[i].seen = 0
           /\ req[i].model_id = "m1" /\ req[i].name = "x"
           /\ req[i].rows = 1 /\ req[i].pc = "done"
    /\ Monthly(DB, PipeUser, "x") < 0
    /\ Total(DB, PipeUser, "x")[1] < 0

-----------------------------------------------------------------------------
(* C7 *)

\* C7: a finished pipe call whose provider request completed has appended
\* exactly one row, and one whose provider request failed, or whose stream
\* raised or was abandoned, has appended none.
C7_OneRowPerCompletedCall ==
    \A i \in 1..NReq :
        req[i].pc = "done"
            => /\ req[i].completed => req[i].rows = 1
               /\ ~req[i].completed => req[i].rows = 0

\* a call of the free model under a name that does not resolve got its
\* provider response and logged nothing
C7_Witness ==
    \E i \in 1..NReq :
        /\ req[i].pc = "done" /\ req[i].completed /\ req[i].dispatched
        /\ req[i].model_id = "free" /\ req[i].name = "zz"
        /\ req[i].rows = 0 /\ req[i].result = "error"
        /\ token_usage_log = << >>

-----------------------------------------------------------------------------
(* C8 *)

\* C8: a pipe call's provider request is issued only after its check
\* returned allowed; a call whose check raised a limit error is over with
\* the limit message, no provider request and no row, and every row of the
\* log was appended by a call that was allowed.
C8_GateBeforeDispatch ==
    /\ \A i \in 1..NReq :
           /\ req[i].dispatched => req[i].check = "allowed"
           /\ req[i].rows > 0 => req[i].dispatched
           /\ req[i].check = "denied"
                  => /\ req[i].pc = "done" /\ req[i].result = "limit_message"
                     /\ ~req[i].dispatched /\ req[i].rows = 0
    /\ Len(token_usage_log) = Cardinality({i \in 1..NReq : req[i].rows = 1})

\* the first call was dispatched and logged its row, the second was refused
\* by the check
C8_Witness ==
    /\ req[1].dispatched /\ req[1].rows = 1
    /\ req[2].check = "denied" /\ req[2].pc = "done"
    /\ Len(token_usage_log) = 1

-----------------------------------------------------------------------------
(* C11 *)

\* the allowances of the initial tables, by name
SponsoredNames == {"x", ""}

\* C11: a log by one user under an allowance leaves the first component of
\* remaining_credits under that allowance unchanged for every other user,
\* and in every state all users read the same second component.
C11_MonthlyPerUserTotalShared ==
    [][/\ \A c \in ScopeCalls :
             (c[3] \in SponsoredNames /\ ScopeLogTokenUsage(c[1], c[2], c[3]))
                 => \A v \in Users \ {c[2]} :
                        Monthly(DBNext, v, c[3]) = Monthly(DB, v, c[3])
       /\ \A n \in SponsoredNames :
             Cardinality({Total(DBNext, u, n) : u \in Users}) = 1]_vars

\* u1 logged a call of each model under "x" and u2 one of "m1": u1 has no
\* credit of its month left, u2 has one, and both read the same total, the
\* allowance overdrawn by the six credits and a half of the four calls
C11_Witness ==
    /\ Len(token_usage_log) = 4
    /\ {token_usage_log[i].model_id : i \in 1..3} = {"m1", "m3", "m6"}
    /\ \A i \in 1..3 : token_usage_log[i].user_id = "u1"
    /\ token_usage_log[4].user_id = "u2"
    /\ group_order = <<"m1", "m6", "m3">>
    /\ Monthly(DB, "u1", "x") = 0
    /\ Monthly(DB, "u2", "x") = 1
    /\ Total(DB, "u1", "x") = Some(-1)
    /\ Total(DB, "u2", "x") = Some(-1)

-----------------------------------------------------------------------------
(* C13 *)

\* the first component counts the rows of the month of today and no other:
\* it is the limit less the credits of these rows, added up as the code adds
\* them and truncated
C13State(db) ==
    \A u \in Users, n \in GateNames :
        LET scope == IF n = None THEN None ELSE AllowanceNamed(db, n).id
            limit == IF n = None THEN max_credits(db, u, None, None).val[1]
                     ELSE AllowanceNamed(db, n).monthly_credit_limit[1]
        IN  Monthly(db, u, n) =
                limit - PyInt(FloatCredits(db, RowsOfMonth(db, u, scope)))

\* a step of the clock into the next month gives every user the whole
\* monthly allowance back
C13Rollover ==
    (today' # today /\ MonthOf(today') # MonthOf(today))
        => \A u \in Users :
              /\ Monthly(DBNext, u, None) = max_credits(DBNext, u, None, None).val[1]
              /\ check_limits(DBNext, "m3", u, None).ok
              /\ \A n \in SponsoredNames :
                     /\ Monthly(DBNext, u, n) = max_credits(DBNext, u, n, None).val[1]
                     /\ check_limits(DBNext, "m3", u, n).err # "MonthlyTokenLimitExceededError"

\* C13: the first component of remaining_credits counts exactly the rows
\* dated in the calendar month of the current date, its first and last day
\* included; when the month rolls over it is max_credits again and a user
\* who was refused for the month is allowed.
C13_MonthWindow == [][C13State(DBNext) /\ C13Rollover]_vars

\* u2 spent its month on the last day of the first month, nine response
\* tokens of "m3", and was refused; on the first day of the next month it
\* has its three credits and is allowed again
C13_Witness ==
    /\ MonthOf(today) = 1 /\ today = FirstDay(today)
    /\ Len(token_usage_log) = 1
    /\ token_usage_log[1].user_id = "u2"
    /\ token_usage_log[1].sponsored_allowance_id = None
    /\ token_usage_log[1].response_tokens = 9
    /\ token_usage_log[1].log_date = today - 1
    /\ check_limits([DB EXCEPT !.today = today - 1], "m3", "u2", None).err
           = "MonthlyTokenLimitExceededError"
    /\ Monthly(DB, "u2", None) = 3
    /\ check_limits(DB, "m3", "u2", None).ok

-----------------------------------------------------------------------------
(* C16 *)

\* C16: with no row in the scope, remaining_credits(user, X) is
\* (X.monthly_credit_limit, X.total_credit_limit) and remaining_credits(user)
\* is (max_credits(user), None); and the second component is None exactly
\* when no name was given.
C16_FreshAndNoneIffNoName ==
    \A u \in Users, n \in GateNames :
        LET rc == remaining_credits(DB, u, n)
            scope == IF n = None THEN None ELSE AllowanceNamed(DB, n).id
            fresh == \A i \in DOMAIN token_usage_log :
                         token_usage_log[i].sponsored_allowance_id # scope
        IN  /\ rc.ok
            /\ (rc.val.total = NoInt) <=> (n = None)
            /\ (fresh /\ n = None)
                   => rc.val = [monthly |-> max_credits(DB, u, None, None).val[1],
                                total |-> NoInt]
            /\ (fresh /\ n # None)
                   => rc.val = [monthly |-> AllowanceNamed(DB, n).monthly_credit_limit[1],
                                total |-> Some(AllowanceNamed(DB, n).total_credit_limit)]

\* nothing was logged under "x": remaining_credits(u1, "x") is the pair of
\* its limits, after a personal log
C16_Witness ==
    /\ Len(token_usage_log) > 0
    /\ \A i \in DOMAIN token_usage_log : token_usage_log[i].sponsored_allowance_id = None
    /\ remaining_credits(DB, "u1", "x").val = [monthly |-> 3, total |-> Some(5)]
    /\ remaining_credits(DB, "u1", "").val.total = NoInt

-----------------------------------------------------------------------------
(* C12 *)

\* C12: for an allowance whose monthly_credit_limit is unset,
\* remaining_credits and check_limits complete without fault, check_limits
\* on the paid model never raises the monthly error and it allows the call
\* whenever the total remainder is above zero.
C12_NoMonthlyCap ==
    \A u \in Users :
        AllowanceNamed(DB, "x").monthly_credit_limit = NoInt
            => LET r == check_limits(DB, "m1", u, "x")
               IN  /\ remaining_credits(DB, u, "x").ok
                   /\ r.ok \/ r.err \in LimitErrors
                   /\ r.err # "MonthlyTokenLimitExceededError"
                   /\ SponsorTotalRemaining(DB, "x") > 0 => r.ok

\* the allowance "x" has no monthly limit, u1 has logged a paid call under
\* it and the pool is not used up
C12_Witness ==
    /\ AllowanceNamed(DB, "x").monthly_credit_limit = NoInt
    /\ Len(token_usage_log) = 1
    /\ token_usage_log[1].sponsored_allowance_id = "idX"
    /\ SponsorTotalRemaining(DB, "x") = 2

-----------------------------------------------------------------------------
(* C14, C15 *)

\* the integer the stored base_credit_allowance stands for
BaseValue == (CHOOSE b \in ConfigBases : b.text = base_setting.base_credit_allowance).value

\* max_credit of the group at position k if the user is a member, else 0
GroupShare(u, k) ==
    IF [credit_group_id |-> credit_group[k].id, user_id |-> u] \in credit_group_user
    THEN credit_group[k].max_credit ELSE 0

\* C14: without an allowance, max_credits(user) is base_credit_allowance plus
\* the max_credit of the groups the user is a member of, for every set of
\* memberships.
C14_MaxCreditsBasePlusGroups ==
    \A u \in Users :
        max_credits(DB, u, None, None) = Ok(Some(BaseValue + GroupShare(u, 1) + GroupShare(u, 2)))

\* base 10, u1 in both groups and u2 in none
C14_Witness ==
    /\ credit_group_user = {[credit_group_id |-> "g1", user_id |-> "u1"],
                            [credit_group_id |-> "g2", user_id |-> "u1"]}
    /\ max_credits(DB, "u1", None, None).val = Some(14)
    /\ max_credits(DB, "u2", None, None).val = Some(10)
    /\ Len(token_usage_log) > 0

\* C15: max_credits(user, sponsored_allowance_name = "x") is the allowance's
\* monthly_credit_limit, whatever the base allowance and the user's groups.
C15_MaxCreditsSponsoredExclusive ==
    \A u \in Users :
        /\ max_credits(DB, u, "x", None) = Ok(AllowanceNamed(DB, "x").monthly_credit_limit)
        /\ max_credits(DB, u, None, "idX") = Ok(AllowanceNamed(DB, "x").monthly_credit_limit)

\* base 10 and u1 in both groups: 14 credits without the allowance, 3 with it
C15_Witness ==
    /\ max_credits(DB, "u1", None, None).val = Some(14)
    /\ max_credits(DB, "u1", "x", None).val = Some(3)
    /\ \E i \in DOMAIN token_usage_log : token_usage_log[i].sponsored_allowance_id = "idX"

-----------------------------------------------------------------------------
(* C17 *)

\* C17: a finished non-streaming call whose provider request was answered
\* hands back the provider's response, also when log_token_usage failed.
C17_ResponseSurvivesLogFailure ==
    \A i \in 1..NReq :
        (req[i].pc = "done" /\ ~req[i].stream /\ req[i].completed)
            => req[i].result = "response"

\* a non-streaming call was answered by the provider, log_token_usage then
\* raised KeyError, and the call handed back the error text
C17_Witness ==
    \E i \in 1..NReq :
        /\ req[i].pc = "done" /\ ~req[i].stream /\ req[i].completed
        /\ req[i].check = "allowed" /\ req[i].dispatched
        /\ ret = [op |-> "log_token_usage", err |-> "KeyError"]
        /\ req[i].result = "error"

-----------------------------------------------------------------------------
(* C18 *)

\* C18: when the check of a pipe call raises the monthly or the total limit
\* error the call returns the limit message; when it raises KeyError
\* (allowance not found) or RuntimeError (model not uniquely in the catalog)
\* the exception leaves pipe.
C18_LimitMessageOthersPropagate ==
    [][\A i \in 1..NReq :
          (req[i].check = "none" /\ req'[i].check # "none")
              => LET r == check_limits_at(StoreAt(req'[i].seen), DB, req'[i].model_id,
                                          PipeUser, req'[i].name)
                 IN  /\ r.err \in {"MonthlyTokenLimitExceededError",
                                    "TotalTokenLimitExceededError"}
                            => /\ req'[i].pc = "done"
                               /\ req'[i].result = "limit_message"
                     /\ r.err \in {"KeyError", "RuntimeError"}
                            => /\ req'[i].pc = "done"
                               /\ req'[i].result = "raised"
                     /\ r.ok => req'[i].pc # "done"]_vars

\* the first call under "x" was logged; the second was refused for the
\* month and returned the limit message
C18_Witness ==
    /\ req[1].name = "x" /\ req[1].rows = 1
    /\ req[2].name = "x" /\ req[2].model_id = "m1"
    /\ check_limits(DB, "m1", PipeUser, "x").err = "MonthlyTokenLimitExceededError"
    /\ req[2].result = "limit_message"
    /\ ~req[2].dispatched

-----------------------------------------------------------------------------
(* C19, C20 *)

\* C19: with exactly one catalog entry for the id, is_paid returns true
\* exactly when the entry's input cost or output cost is positive.
C19_IsPaidIffPositiveCost ==
    Len(model_pricing) = 1
        => LET r == is_paid(DB, "m1")
           IN  /\ r.ok
               /\ r.val <=> (\/ model_pricing[1].input_cost_credits > 0
                             \/ model_pricing[1].output_cost_credits > 0)

\* the only entry has input cost -1 and output cost 0: the model is not
\* paid, and a call under a name that is never resolved was let through
C19_Witness ==
    /\ model_pricing = <<CatalogRow(-1, 0)>>
    /\ ~is_paid(DB, "m1").val
    /\ is_paid(DB, "m1").ok
    /\ req[1].check = "allowed" /\ req[1].name = "zz"

\* C20: with no entry or more than one entry for the id, is_paid raises;
\* check_limits raises the same error whatever the allowance name, also one
\* that does not resolve, and no call for the id reaches the provider.
C20_IsPaidRaisesUnlessUnique ==
    Len(model_pricing) # 1
        => /\ ~is_paid(DB, "m1").ok
           /\ is_paid(DB, "m1").err = "RuntimeError"
           /\ \A n \in {None, "x", "zz"} :
                  check_limits(DB, "m1", PipeUser, n).err = "RuntimeError"
           /\ \A i \in 1..NReq :
                  req[i].pc # "idle"
                      => /\ req[i].check = "raised" /\ req[i].pc = "done"
                         /\ ~req[i].dispatched /\ req[i].rows = 0
           /\ token_usage_log = << >>

\* the catalog holds two entries of the id, one of them paid; a call for
\* it ended at the check
C20_Witness ==
    /\ model_pricing = <<CatalogRow(1, 1), CatalogRow(0, 0)>>
    /\ req[1].check = "raised" /\ req[1].pc = "done"
    /\ ~req[1].dispatched

-----------------------------------------------------------------------------
(* C21, C22 *)

\* names no SponsoredAllowance row carries
UnknownNames == {n \in {"y", "zz"} : \A a \in sponsored_allowance : a.name # n}

\* C21: max_credits, remaining_credits and log_token_usage fail when no
\* SponsoredAllowance carries the name they are given.
C21_UnknownNameFails ==
    \A u \in Users, n \in UnknownNames :
        /\ ~max_credits(DB, u, n, None).ok
        /\ ~remaining_credits(DB, u, n).ok
        /\ ~ResolveAllowance(n).ok

\* after a logged call, no allowance is named "zz": remaining_credits and
\* log_token_usage raise KeyError, max_credits returns None
C21_Witness ==
    /\ Len(token_usage_log) > 0
    /\ "zz" \in UnknownNames
    /\ remaining_credits(DB, "u1", "zz").err = "KeyError"
    /\ ResolveAllowance("zz").err = "KeyError"
    /\ max_credits(DB, "u1", "zz", None) = Ok(NoInt)

\* C22: max_credits with a name and an id raises RuntimeError, whatever the
\* two are (the same allowance, different ones, unknown ones) and whatever
\* the store holds.
C22_NameAndIdRejected ==
    \A u \in Users, n \in {"x", "", "zz"}, id \in {"idX", "idE", "id4"} :
        max_credits(DB, u, n, id) = Raise("RuntimeError")

\* "x" and idX are the same allowance with a monthly limit of 3: each alone
\* gives 3, both together raise
C22_Witness ==
    /\ Len(token_usage_log) > 0
    /\ max_credits(DB, "u1", "x", None) = Ok(Some(3))
    /\ max_credits(DB, "u1", None, "idX") = Ok(Some(3))
    /\ max_credits(DB, "u1", "x", "idX").err = "RuntimeError"

-----------------------------------------------------------------------------
(* C23, C24 *)

\* C23: every SponsoredAllowance row has a total_credit_limit above zero,
\* after any sequence of create, update and delete.
C23_TotalLimitPositive ==
    \A a \in sponsored_allowance : a.total_credit_limit > 0

\* a create with a total_credit_limit of 0 was committed
C23_Witness ==
    /\ ret = [op |-> "create_sponsored_allowance", err |-> "none"]
    /\ \E a \in sponsored_allowance : a.name = "y" /\ a.total_credit_limit = 0

\* C24: no two SponsoredAllowance rows share a name.
C24_NamesUnique ==
    \A a \in sponsored_allowance, b \in sponsored_allowance :
        a.name = b.name => a.id = b.id

\* two creates under the name "x" were both committed
C24_Witness ==
    /\ ret = [op |-> "create_sponsored_allowance", err |-> "none"]
    /\ \E a \in sponsored_allowance, b \in sponsored_allowance :
           /\ a.name = "x" /\ b.name = "x"
           /\ a.sponsor_id = "s1" /\ b.sponsor_id = "s2"

-----------------------------------------------------------------------------
(* C25 *)

\* C25: a create with a total_credit_limit, under a name no row carries, is
\* read back by get_sponsored_allowance(name) with the sponsor, the two
\* limits and exactly the models it was given, under an id no row carried.
C25_CreateGetRoundTrip ==
    [][\A c \in CreateCalls :
          (/\ CallCreate(c)
           /\ c[4] # NoInt
           /\ \A a \in sponsored_allowance : a.name # c[2])
              => LET got == get_sponsored_allowance(DBNext, c[2])
                 IN  /\ got.ok
                     /\ got.val.name = c[2]
                     /\ got.val.sponsor_id = c[1]
                     /\ got.val.total_credit_limit = c[4][1]
                     /\ got.val.monthly_credit_limit = c[5]
                     /\ got.val.base_models = c[3]
                     /\ got.val.id \notin UsedIds]_vars

\* the allowance "x" was created for the models m1 and m2 and reads back
C25_Witness ==
    /\ ret = [op |-> "create_sponsored_allowance", err |-> "none"]
    /\ Cardinality({a \in sponsored_allowance : a.name = "x"}) = 1
    /\ get_sponsored_allowance(DB, "x").val.base_models = {"m1", "m2"}
    /\ get_sponsored_allowance(DB, "x").val.total_credit_limit = 5
    /\ get_sponsored_allowance(DB, "x").val.monthly_credit_limit = Some(3)

-----------------------------------------------------------------------------
(* C26, C27, C28 *)

\* the rows an id or, without an id, a name designates
Designated(allowance_id, name) ==
    {a \in sponsored_allowance :
        IF allowance_id # None THEN a.id = allowance_id ELSE a.name = name}

\* the join rows of the other allowances
OtherJoinRows(rows, id) == {j \in rows : j.sponsored_allowance_id # id}

\* C26: an update that succeeds changes, of one designated allowance, the
\* name, sponsor, limits and model set it supplies and nothing else; a
\* supplied model set replaces the old one; the other allowances, their join
\* rows and the usage log stay as they were.
C26_PartialUpdate ==
    [][\A c \in UpdateCalls :
          (CallUpdate(c) /\ ret'.err = "none")
              => \E a \in Designated(c[1], c[2]) :
                    \E b \in sponsored_allowance' :
                        /\ b.id = a.id
                        /\ b.creation_date = a.creation_date
                        /\ b.name = (IF c[3] # None THEN c[3] ELSE a.name)
                        /\ b.sponsor_id = (IF c[4] # None THEN c[4] ELSE a.sponsor_id)
                        /\ b.total_credit_limit =
                               (IF c[6] # NoInt THEN c[6][1] ELSE a.total_credit_limit)
                        /\ b.monthly_credit_limit =
                               (IF c[7] # NoInt THEN c[7] ELSE a.monthly_credit_limit)
                        /\ BaseModelsOf(DBNext, a.id) =
                               (IF c[5] # NoInt THEN c[5][1] ELSE BaseModelsOf(DB, a.id))
                        /\ sponsored_allowance' \ {b} = sponsored_allowance \ {a}
                        /\ OtherJoinRows(sponsored_allowance_base_models', a.id)
                               = OtherJoinRows(sponsored_allowance_base_models, a.id)
                        /\ token_usage_log' = token_usage_log]_vars

\* of two allowances, the one created for m1 and m2 under "x" by s1 had its
\* models replaced by m2 and kept everything else
C26_Witness ==
    /\ ret = [op |-> "update_sponsored_allowance", err |-> "none"]
    /\ Cardinality(sponsored_allowance) = 2
    /\ \E a \in sponsored_allowance :
           /\ a.name = "x" /\ a.sponsor_id = "s1"
           /\ a.total_credit_limit = 5 /\ a.monthly_credit_limit = Some(3)
           /\ BaseModelsOf(DB, a.id) = {"m2"}

\* C27: a delete that succeeds removes one designated allowance and every
\* join row of its id: no row and no association carries the id afterwards,
\* a lookup by its name does not find it, and the other allowances and their
\* associations stay as they were.
C27_DeleteCascades ==
    [][\A c \in DeleteCalls :
          (CallDelete(c) /\ ret'.err = "none")
              => \E a \in Designated(c[1], c[2]) :
                    /\ sponsored_allowance' = sponsored_allowance \ {a}
                    /\ \A j \in sponsored_allowance_base_models' :
                           j.sponsored_allowance_id # a.id
                    /\ \A b \in sponsored_allowance' : b.id # a.id
                    /\ LET got == get_sponsored_allowance(DBNext, a.name)
                       IN  got.ok => got.val.id # a.id
                    /\ OtherJoinRows(sponsored_allowance_base_models', a.id)
                           = OtherJoinRows(sponsored_allowance_base_models, a.id)
                    /\ token_usage_log' = token_usage_log]_vars

\* the first allowance created is gone with its associations, the second one
\* is left with its own
C27_Witness ==
    /\ ret = [op |-> "delete_sponsored_allowance", err |-> "none"]
    /\ {a.id : a \in sponsored_allowance} = {"id2"}
    /\ BaseModelsOf(DB, "id1") = {}
    /\ BaseModelsOf(DB, "id2") = {"m1", "m2"}

\* C28: update and delete raise ValueError when neither id nor name is
\* given and when no allowance is designated, and leave every table and the
\* usage log as they were.
C28_FailedAdminLeavesStore ==
    [][/\ \A c \in UpdateCalls :
             (CallUpdate(c) /\ Designated(c[1], c[2]) = {})
                 => /\ ret'.err = "ValueError"
                    /\ UNCHANGED <<tables, token_usage_log>>
       /\ \A c \in DeleteCalls :
             (CallDelete(c) /\ Designated(c[1], c[2]) = {})
                 => /\ ret'.err = "ValueError"
                    /\ UNCHANGED <<tables, token_usage_log>>
       /\ \A c \in UpdateCalls :
             (CallUpdate(c) /\ c[1] = None /\ c[2] = None) => ret'.err = "ValueError"
       /\ \A c \in DeleteCalls :
             (CallDelete(c) /\ c[1] = None /\ c[2] = None) => ret'.err = "ValueError"]_vars

\* with two allowances in the store a delete raised ValueError
C28_Witness ==
    /\ ret = [op |-> "delete_sponsored_allowance", err |-> "ValueError"]
    /\ Cardinality(sponsored_allowance) = 2
    /\ sponsored_allowance_base_models # {}

-----------------------------------------------------------------------------
(* C30 *)

\* a call between the return of its check and the call of log_token_usage:
\* the provider request is about to be made, is being answered or streamed,
\* or has just been answered
InFlight == {"request", "gen", "streaming", "log"}

\* C30: while the provider call of a pipe call is in flight no session of
\* the call is open: every session the check opened is closed before the
\* provider request starts, and log_token_usage, with its session, starts
\* only when the provider has answered or the stream is exhausted.
C30_NoSessionAcrossProviderCall ==
    \A i \in 1..NReq :
        /\ req[i].pc \in InFlight => req[i].sessions = 0 /\ req[i].script = << >>
        /\ req[i].pc = "logging"
              => /\ req[i].dispatched
                 /\ req[i].events = << >>
                 /\ req[i].stream => req[i].yielded = MaxChunks

\* a streaming call of "m1" under "x" is taking its stream: its check has
\* opened seven sessions, those of get_models inside those of the two
\* remaining-credit reads, and none of them is open
C30_Witness ==
    \E i \in 1..NReq :
        /\ req[i].stream /\ req[i].name = "x" /\ req[i].model_id = "m1"
        /\ req[i].pc = "streaming" /\ req[i].yielded = 1
        /\ req[i].check = "allowed"
        /\ req[i].opened = 7 /\ req[i].sessions = 0

-----------------------------------------------------------------------------
(* C31, C32, C37: rounding, and rows of models that are not paid *)

\* C31: the monthly figure is max_credits minus the sum of the credits of
\* the rows of the scope, over all rows and models, truncated toward zero
\* once.
C31_TruncateGrandTotal ==
    \A u \in Users, n \in {None, "x"} :
        LET scope == IF n = None THEN None ELSE AllowanceNamed(DB, n).id
            left == remaining_credits(DB, u, n)
        IN  /\ left.ok
            /\ left.val.monthly =
                   max_credits(DB, u, n, None).val[1]
                       - PyInt(FloatCredits(DB, RowsOfMonth(DB, u, scope)))

\* u1 logged one prompt and one response token on each of m1, m3 and m6:
\* two credits and a half, two thirds and five sixths of a credit.  The
\* database lists the groups as m1, m6, m3: the sum is just below four and
\* three credits are spent, where truncating the cost of each model would
\* give two; listed as m1, m3, m6 the sum is four
C31_Witness ==
    /\ Len(token_usage_log) = 3
    /\ \A i \in 1..3 :
           /\ token_usage_log[i].user_id = "u1"
           /\ token_usage_log[i].sponsored_allowance_id = None
           /\ token_usage_log[i].prompt_tokens = 1
           /\ token_usage_log[i].response_tokens = 1
    /\ \A m \in {"m1", "m3", "m6"} : \E i \in 1..3 : token_usage_log[i].model_id = m
    /\ group_order = <<"m1", "m6", "m3">>
    /\ Monthly(DB, "u1", None) = max_credits(DB, "u1", None, None).val[1] - 3
    /\ Monthly([DB EXCEPT !.group_order = <<"m1", "m3", "m6">>], "u1", None)
           = max_credits(DB, "u1", None, None).val[1] - 4

\* C32: the total figure of the allowance "x" is total_credit_limit minus the
\* sum of the credits of its rows truncated toward zero.
C32_TotalTruncatesUsage ==
    \A u \in Users :
        Total(DB, u, "x") =
            Some(AllowanceX.total_credit_limit
                     - PyInt(FloatCredits(DB, LifetimeRows(DB, AllowanceNamed(DB, "x")))))

\* two credits and a half were used under "x": of the 5 credits of the
\* allowance the code reports 2
C32_Witness ==
    /\ Len(token_usage_log) = 1
    /\ token_usage_log[1].sponsored_allowance_id = "idX"
    /\ token_usage_log[1].model_id = "m1"
    /\ token_usage_log[1].prompt_tokens = 1
    /\ token_usage_log[1].response_tokens = 1
    /\ Total(DB, "u1", "x") = Some(2)

\* C37: a log_token_usage for a model that is not paid or for a model id
\* without a catalog row appends its row, and remaining_credits returns after
\* it what it returned before it, for every user and scope.
C37_UnpricedRowsCostNothing ==
    [][\A c \in FreeCalls :
          (/\ FreeLogTokenUsage(c[1], c[2], c[3])
           /\ \/ c[1] \notin ModelList(model_pricing)
              \/ ~is_paid(DB, c[1]).val)
              => /\ Len(token_usage_log') = Len(token_usage_log) + 1
                 /\ token_usage_log'[Len(token_usage_log')].model_id = c[1]
                 /\ \A v \in Users, k \in {None, "x"} :
                        remaining_credits(DBNext, v, k) = remaining_credits(DB, v, k)]_vars

\* u2 logged two prompt tokens of "promo", which is not paid: of its 3
\* credits of the month it has 5 left
C37_Witness ==
    /\ Len(token_usage_log) = 1
    /\ token_usage_log[1].model_id = "promo"
    /\ token_usage_log[1].user_id = "u2"
    /\ token_usage_log[1].sponsored_allowance_id = None
    /\ is_paid(DB, "promo").ok /\ ~is_paid(DB, "promo").val
    /\ max_credits(DB, "u2", None, None).val[1] = 3
    /\ Monthly(DB, "u2", None) = 5

-----------------------------------------------------------------------------
(* C34 *)

\* the messages of a list that are not system messages, in their order
NonSystem(msgs) == SelectSeq(msgs, LAMBDA m : m.role # "system")

\* C34: pop_system_message returns the text of the first system message (None
\* when there is none) and the list of the messages that are not system
\* messages, in their original order: no system message is left in it.
C34_PopRemovesAllSystem ==
    popped.called
        => /\ \A k \in DOMAIN popped.remaining : popped.remaining[k].role # "system"
           /\ popped.remaining = NonSystem(messages)
           /\ LET sys == SelectSeq(messages, LAMBDA m : m.role = "system")
              IN  popped.system_message =
                      (IF sys = << >> THEN NoInt ELSE ContentText(sys[1].content))

\* of two system messages around a user message the first was taken out and
\* the second is still in the returned list
C34_Witness ==
    /\ popped.called
    /\ messages = << Message("system", StrContent("S1")),
                     Message("user", StrContent("U")),
                     Message("system", NoContent) >>
    /\ popped.system_message = Some(<<"S1">>)
    /\ popped.remaining = << Message("user", StrContent("U")),
                             Message("system", NoContent) >>

-----------------------------------------------------------------------------
(* C33 *)

\* C33: a streaming call invokes log_token_usage only when every event of the
\* provider stream has been taken and every chunk of it yielded, and the row it
\* adds holds the token counts the adapter has written by then, which are
\* the counts the provider reported and not the zeros of the new TokenCount.
C33_StreamLogsFinalTokens ==
    [][\A i \in 1..NReq :
          (req[i].stream /\ ~req[i].completed /\ req'[i].completed)
              => /\ req[i].pc = "streaming"
                 /\ req[i].events = << >>
                 /\ LET s == StreamOf(req[i].provider)
                    IN  req[i].yielded = Cardinality({k \in DOMAIN s : s[k] \in Yielded})
                 /\ req'[i].rows = req[i].rows + 1
                       => /\ Len(token_usage_log') = Len(token_usage_log) + 1
                          /\ LET row == token_usage_log'[Len(token_usage_log')]
                             IN  /\ row.prompt_tokens = req[i].prompt_tokens
                                 /\ row.response_tokens = req[i].response_tokens
                                 /\ <<row.prompt_tokens, row.response_tokens>> = PipeTokens]_vars

\* a stream was followed to its end, both chunks were yielded, and the row
\* of the call holds the two prompt tokens and the one response token
C33_Witness ==
    \E i \in 1..NReq :
        /\ req[i].pc = "done" /\ req[i].stream /\ req[i].completed
        /\ req[i].yielded = MaxChunks /\ req[i].events = << >>
        /\ req[i].rows = 1
        /\ token_usage_log # << >>
        /\ token_usage_log[Len(token_usage_log)].prompt_tokens = PipeTokens[1]
        /\ token_usage_log[Len(token_usage_log)].response_tokens = PipeTokens[2]

-----------------------------------------------------------------------------
(* C35 *)

\* C35: within one call of pipe, log_token_usage is called with the model id
\* and the allowance name _check_limits was called with, after a stream and
\* after a response alike: the check is that of the model id and the name
\* pipe derived from the request, and the row the call adds is a row of the
\* checked model id in the checked scope, the allowance of the checked name
\* or the personal scope without a name, and no row at all when no allowance
\* has the name.
C35_GatedScopeIsBilledScope ==
    [][\A i \in 1..NReq :
          /\ (req[i].check = "none" /\ req'[i].check # "none")
                => /\ Len(req'[i].gate) = 1
                   /\ req'[i].check = "allowed"
                         <=> check_limits(DB, req'[i].gate[1].model_id, PipeUser,
                                          req'[i].gate[1].name).ok
          /\ (~req[i].completed /\ req'[i].completed)
                => LET gated == req[i].gate[1]
                       found == IF gated.name # None
                                THEN get_sponsored_allowance(DB, gated.name)
                                ELSE Ok([id |-> None])
                   IN  /\ req[i].check = "allowed"
                       /\ req'[i].billed = req[i].gate
                       /\ found.ok
                             => /\ Len(token_usage_log') = Len(token_usage_log) + 1
                                /\ LET row == token_usage_log'[Len(token_usage_log')]
                                   IN  /\ row.model_id = gated.model_id
                                       /\ row.user_id = PipeUser
                                       /\ row.sponsored_allowance_id = found.val.id
                       /\ ~found.ok => token_usage_log' = token_usage_log]_vars

\* a response to a request of "anthropic.m3" was checked and billed as "m3"
\* in the personal scope, and a stream of the workspace model "x---ws" over
\* "google_genai.m3" was checked and billed as "m3" under the allowance "x"
C35_Witness ==
    /\ Len(token_usage_log) = 2
    /\ req[1].pc = "done" /\ req[1].completed /\ ~req[1].stream
    /\ req[1].provider = "anthropic"
    /\ req[1].gate = <<CheckArgs("m3", None)>> /\ req[1].billed = req[1].gate
    /\ token_usage_log[1].sponsored_allowance_id = None
    /\ token_usage_log[1].model_id = "m3"
    /\ req[2].pc = "done" /\ req[2].completed /\ req[2].stream
    /\ req[2].provider = "google_genai"
    /\ req[2].gate = <<CheckArgs("m3", "x")>> /\ req[2].billed = req[2].gate
    /\ token_usage_log[2].sponsored_allowance_id = "idX"
    /\ token_usage_log[2].model_id = "m3"

-----------------------------------------------------------------------------
(* C36 *)

RatLt(a, b) == a[1] * b[2] < b[1] * a[2]

\* the scope of an allowance name: the personal one, or the allowance's id
ScopeOf(db, name) ==
    IF name = None THEN None ELSE get_sponsored_allowance(db, name).val.id

\* the credits of the rows of the log at the positions S at the rates of
\* the catalog, an exact rational
ExactCredits(db, S) ==
    LET log == db.token_usage_log
        acc[i \in 0..Len(log)] ==
            IF i = 0 THEN RatOfInt(0)
            ELSE IF i \in S
                 THEN RatAdd(acc[i - 1],
                             ExactCost(db, log[i].model_id, log[i].prompt_tokens,
                                       log[i].response_tokens))
                 ELSE acc[i - 1]
    IN  acc[Len(log)]

\* the month's spend of the pipe's user in the scope of a name, not rounded
Spend(db, name) == ExactCredits(db, RowsOfMonth(db, PipeUser, ScopeOf(db, name)))

\* the month's limit of the pipe's user in the scope of a name
MaxOf(db, name) == max_credits(db, PipeUser, name, None).val[1]

\* in every scope the spend less its last row is below the limit
SpendWithinOneCall(db) ==
    \A n \in GateScopes :
        LET P == RowsOfMonth(db, PipeUser, ScopeOf(db, n))
        IN  \/ P = {}
            \/ LET last == CHOOSE k \in P : \A j \in P : j <= k
               IN  RatLt(ExactCredits(db, P \ {last}), RatOfInt(MaxOf(db, n)))

\* C36: with the calls of the user one at a time within a month, a call of a
\* paid model is allowed only while the month's spend of its scope is below
\* max_credits and is denied whenever the spend has reached max_credits, so
\* that the spend stays below max_credits plus the cost of one call.
C36_SerialGate ==
    [][/\ \A i \in 1..NReq :
             (/\ req[i].check = "none" /\ req'[i].check # "none"
              /\ is_paid(DB, req'[i].model_id).ok
              /\ is_paid(DB, req'[i].model_id).val)
                 => LET n == req'[i].name
                    IN  /\ req'[i].check = "allowed"
                              => RatLt(Spend(DB, n), RatOfInt(MaxOf(DB, n)))
                        /\ ~RatLt(Spend(DB, n), RatOfInt(MaxOf(DB, n)))
                              => req'[i].check = "denied"
       /\ SpendWithinOneCall(DBNext)]_vars

\* the first call spent the three credits of the month, two prompt and
\* seven response tokens of "m3": the second call reads one credit left and
\* is allowed
C36_Witness ==
    /\ req[1].pc = "done" /\ req[1].completed /\ req[1].name = None
    /\ Len(token_usage_log) = 1
    /\ token_usage_log[1].prompt_tokens = 2 /\ token_usage_log[1].response_tokens = 7
    /\ ~RatLt(Spend(DB, None), RatOfInt(MaxOf(DB, None)))
    /\ ~RatLt(RatOfInt(MaxOf(DB, None)), Spend(DB, None))
    /\ Monthly(DB, PipeUser, None) = 1
    /\ req[2].check = "allowed" /\ req[2].name = None

=============================================================================
